---------------------------- MODULE Spec2Model ----------------------------
(***************************************************************************)
(* A model of the colorspace engine of magick/colorspace.c:                *)
(* SetImageColorspace, TransformImageColorspace, RGBTransformImage and    *)
(* TransformRGBImage acting on one image.                                  *)
(*                                                                         *)
(* The image is its colorspace tag, its storage class, its rows of pixel   *)
(* channel data, its colormap and its per-pixel colormap indexes.  Channel *)
(* data is kept symbolically: a value is a base colour together with the   *)
(* sequence of conversion kernels applied to it, so two values are equal   *)
(* exactly when the same kernels were applied, in the same order, to the   *)
(* same colour.  The row loops are the OpenMP loops of the source: a team  *)
(* of nthreads threads, rows dealt out in chunks of ChunkSize, each thread *)
(* reading the shared status flag without synchronisation.                 *)
(***************************************************************************)
EXTENDS Integers, Sequences, FiniteSets, TLC

(***************************************************************************)
(* Bounds of the model.                                                    *)
(***************************************************************************)
MaxRows == 2

MaxThreads == 2

MaxCalls == 2

MaxFaults == 1

MaxColors == 2

(***************************************************************************)
(* Program constants.                                                      *)
(***************************************************************************)
ChunkSize == 4

(***************************************************************************)
(* Colorspaces.  The dispatch of the source is modelled for every value of *)
(* ColorspaceType; the behaviours explored draw the tag and the targets    *)
(* from Colorspaces, one or more values of each class of the dispatch.     *)
(***************************************************************************)
DirectMathColorspaces ==
  {"CMYColorspace", "CMYKColorspace", "HSBColorspace", "HSLColorspace",
   "HWBColorspace", "LabColorspace"}

ForwardTableColorspaces ==
  {"OHTAColorspace", "Rec601LumaColorspace", "GRAYColorspace",
   "Rec601YCbCrColorspace", "YCbCrColorspace", "Rec709LumaColorspace",
   "Rec709YCbCrColorspace", "RGBColorspace", "XYZColorspace",
   "YCCColorspace", "YIQColorspace", "YPbPrColorspace", "YUVColorspace"}

InverseTableColorspaces ==
  {"OHTAColorspace", "Rec601YCbCrColorspace", "YCbCrColorspace",
   "Rec709YCbCrColorspace", "RGBColorspace", "XYZColorspace",
   "YCCColorspace", "YIQColorspace", "YPbPrColorspace", "YUVColorspace"}

Colorspaces ==
  {"UndefinedColorspace", "sRGBColorspace", "TransparentColorspace",
   "GRAYColorspace", "RGBColorspace", "HSLColorspace", "LogColorspace",
   "YCbCrColorspace"}

IsGrayColorspace(c) ==
  c \in {"GRAYColorspace", "Rec601LumaColorspace", "Rec709LumaColorspace"}

IssRGBColorspace(c) ==
  IsGrayColorspace(c) \/ c = "sRGBColorspace" \/ c = "TransparentColorspace"

\* The first switch of RGBTransformImage, on its colorspace argument.
ForwardKind(c) ==
  IF c \in DirectMathColorspaces THEN "direct"
  ELSE IF c = "LogColorspace" THEN "log" ELSE "table"

\* The first switch of TransformRGBImage, on the image's tag.
InverseKind(c) ==
  IF c \in DirectMathColorspaces THEN "direct"
  ELSE IF c = "LogColorspace" THEN "log" ELSE "table"

\* The table set the second switch of RGBTransformImage builds.
ForwardTables(c) ==
  IF c \in ForwardTableColorspaces THEN c ELSE "Linear"

\* The table set the second switch of TransformRGBImage builds.
InverseTables(c) ==
  IF c \in InverseTableColorspaces THEN c ELSE "Linear"

\* The per-pixel correction TransformRGBImage applies after the table sum:
\* it is chosen by the colorspace ARGUMENT, not by the image's tag.
PostCorrection(c) ==
  IF c = "YCCColorspace" THEN "YCCMap"
  ELSE IF c = "RGBColorspace" THEN "sRGBGamma" ELSE "none"

(***************************************************************************)
(* Channel data.                                                           *)
(***************************************************************************)
Colour(b) == [base |-> b, hist |-> << >>]

ApplyKernel(k, v) == [v EXCEPT !.hist = Append(@, k)]

\* The kernel a pass of RGBTransformImage(colorspace) applies to a colour.
ForwardKernel(c) ==
  IF ForwardKind(c) = "table"
    THEN <<"RGBTransformImage", ForwardTables(c), "none">>
    ELSE <<"RGBTransformImage", c, "none">>

\* The kernel a pass of TransformRGBImage applies to a colour of an image
\* tagged tag, called with the argument c.
InverseKernel(tag, c) ==
  IF InverseKind(tag) = "table"
    THEN <<"TransformRGBImage", InverseTables(tag), PostCorrection(c)>>
    ELSE <<"TransformRGBImage", tag, "none">>

VARIABLES
  colorspace,      \* image->colorspace
  storage_class,   \* image->storage_class
  rows,            \* image->rows
  colors,          \* image->colors
  pixels,          \* the stored channel data of each row
  colormap,        \* image->colormap
  indexes,         \* the colormap index of each row's pixels
  progress_monitor,\* image->progress_monitor is installed
  nthreads,        \* the size of the OpenMP team (1: a build without OpenMP)
  faults,          \* failures and cancellations injected so far
  calls,           \* calls the client may still make
  api,             \* the client's call: its name, argument, state, result
  pre,             \* the image as it was when the client's call began
  tic,             \* the frame of TransformImageColorspace
  fn,              \* the frame of RGBTransformImage / TransformRGBImage
  loop             \* the row loop in progress

image == <<colorspace, storage_class, rows, colors, pixels, colormap,
           indexes, progress_monitor>>

vars == <<colorspace, storage_class, rows, colors, pixels, colormap, indexes,
          progress_monitor, nthreads, faults, calls, api, pre, tic, fn, loop>>

Rows == 0 .. rows - 1

Threads == 1 .. nthreads

Snapshot ==
  [colorspace |-> colorspace, storage_class |-> storage_class,
   pixels |-> pixels, colormap |-> colormap, indexes |-> indexes]

\* past: the client's earlier calls, each with the storage class the image
\* had when it was made; trace: the directional functions the call of
\* TransformImageColorspace has run, each with the tag before and after it.
NoApi ==
  [name |-> "none", target |-> "none", pc |-> "idle", ret |-> TRUE,
   past |-> << >>]

NoTic == [pc |-> "none", status |-> TRUE, trace |-> << >>]

NoFn ==
  [name |-> "none", arg |-> "none", case |-> "none", kind |-> "none",
   pc |-> "none", status |-> TRUE, ret |-> TRUE, entry |-> "none",
   entryclass |-> "none", allocated |-> {}, allocfail |-> FALSE]

NoLoop ==
  [active |-> FALSE, visited |-> {}, cur |-> [t \in Threads |-> -1],
   view |-> [t \in Threads |-> TRUE],
   xformed |-> {}, skipped |-> {}, failed |-> {}, late |-> {},
   cancelled |-> FALSE, asked |-> {}, entries |-> {}]

\* An outcome of an operation that can fail: a failure uses up the budget.
Outcomes == IF faults < MaxFaults THEN {"ok", "fail"} ELSE {"ok"}

Charge(o) == IF o = "ok" THEN faults ELSE faults + 1

(***************************************************************************)
(* An image: any tag, either storage class; the pixels of a PseudoClass     *)
(* image agree with its colormap.                                          *)
(***************************************************************************)
InitialColormap == [i \in 0 .. MaxColors - 1 |-> Colour(<<"colormap", i>>)]

InitialIndexes(r) == [y \in 0 .. r - 1 |-> y % MaxColors]

\* An image of r rows and n colors.
InitImageOf(r, n) ==
  /\ colorspace \in Colorspaces
  /\ storage_class \in {"DirectClass", "PseudoClass"}
  /\ rows = r
  /\ colors = n
  /\ colormap = [i \in 0 .. n - 1 |-> Colour(<<"colormap", i>>)]
  /\ indexes = [y \in 0 .. r - 1 |-> y % n]
  /\ pixels = [y \in 0 .. r - 1 |->
                 IF storage_class = "PseudoClass"
                   THEN Colour(<<"colormap", y % n>>)
                   ELSE Colour(<<"pixel", y>>)]
  /\ progress_monitor \in BOOLEAN
  /\ faults = 0
  /\ api = NoApi
  /\ pre = Snapshot
  /\ tic = NoTic
  /\ fn = NoFn
  /\ loop = NoLoop

InitImage(r) == InitImageOf(r, MaxColors)

\* One call of the interface on any image, in a build without OpenMP: the
\* row loops run on one thread.
Init ==
  /\ nthreads = 1
  /\ calls = 1
  /\ InitImage(MaxRows)

\* A sequence of conversions of a newly made image, in a build without
\* OpenMP: a new image is tagged sRGB and has no progress monitor.
InitSeq ==
  /\ nthreads = 1
  /\ calls = MaxCalls
  /\ InitImage(MaxRows)
  /\ colorspace = "sRGBColorspace"
  /\ progress_monitor = FALSE

\* One call in an OpenMP build, on an image with rows enough, and colors
\* enough, for two chunks of iterations.
InitOMP ==
  /\ nthreads = MaxThreads
  /\ calls = 1
  /\ InitImageOf(ChunkSize + MaxRows - 1, ChunkSize + MaxColors - 1)

(***************************************************************************)
(* Calls and returns.                                                      *)
(***************************************************************************)
CanCall == api.pc \in {"idle", "ret"} /\ calls > 0

\* The frame of a directional function at its first statement.
Enter(name, arg) ==
  [NoFn EXCEPT !.name = name, !.arg = arg, !.pc = "entry",
               !.entry = colorspace, !.entryclass = storage_class]

Begin ==
  /\ calls' = calls - 1
  /\ pre' = Snapshot

Past ==
  IF api.pc = "ret"
    THEN Append(api.past, [name |-> api.name, target |-> api.target,
                           ret |-> api.ret,
                           storage_class |-> pre.storage_class])
    ELSE api.past

Running(name, c) ==
  [name |-> name, target |-> c, pc |-> "run", ret |-> TRUE, past |-> Past]

Returned(name, c, v) ==
  [name |-> name, target |-> c, pc |-> "ret", ret |-> v, past |-> Past]

\* The sync alone: the tag is not assigned.
SyncImagePixelCacheOnly(c, o) ==
  /\ colorspace' = colorspace
  /\ faults' = Charge(o)

\* SetImageColorspace(): set the tag, then sync the pixel cache.
SetImageColorspace(c, o) ==
  /\ colorspace' = c
  /\ faults' = Charge(o)

CallSetImageColorspace ==
  \E c \in Colorspaces, o \in Outcomes :
    /\ CanCall
    /\ Begin
    /\ SetImageColorspace(c, o)
    /\ api' = Returned("SetImageColorspace", c, o = "ok")
    /\ tic' = NoTic /\ fn' = NoFn /\ loop' = NoLoop
    /\ UNCHANGED <<storage_class, rows, colors, pixels, colormap, indexes,
                   progress_monitor, nthreads>>

\* The client calls RGBTransformImage() with an argument its assertions
\* admit, on an image tagged sRGB or an equivalent.
CallRGBTransformImage ==
  \E c \in Colorspaces :
    /\ CanCall
    /\ c \notin {"sRGBColorspace", "TransparentColorspace",
                 "UndefinedColorspace"}
    /\ IssRGBColorspace(colorspace)
    /\ Begin
    /\ api' = Running("RGBTransformImage", c)
    /\ tic' = NoTic
    /\ fn' = Enter("RGBTransformImage", c)
    /\ loop' = NoLoop
    /\ UNCHANGED <<image, nthreads, faults>>

CallTransformRGBImage ==
  \E c \in Colorspaces :
    /\ CanCall
    /\ Begin
    /\ api' = Running("TransformRGBImage", c)
    /\ tic' = NoTic
    /\ fn' = Enter("TransformRGBImage", c)
    /\ loop' = NoLoop
    /\ UNCHANGED <<image, nthreads, faults>>

\* A directional function called by the client returns to it.
ClientReturn ==
  /\ fn.pc = "ret"
  /\ tic.pc = "none"
  /\ api.pc = "run"
  /\ api' = [api EXCEPT !.pc = "ret", !.ret = fn.ret]
  /\ UNCHANGED <<image, nthreads, faults, calls, pre, tic, fn, loop>>

(***************************************************************************)
(* TransformImageColorspace().                                             *)
(***************************************************************************)
TicCall(name, arg, at, st, tr) ==
  /\ fn' = Enter(name, arg)
  /\ loop' = NoLoop
  /\ tic' = [pc |-> at, status |-> st, trace |-> tr]

\* The trace, with the directional function that has just returned.
Traced ==
  Append(tic.trace, [name |-> fn.name, arg |-> fn.arg, tag |-> fn.entry,
                     ret |-> fn.ret, after |-> colorspace])

TicReturn(v) ==
  /\ api' = [api EXCEPT !.pc = "ret", !.ret = v]
  /\ tic' = [tic EXCEPT !.pc = "none", !.trace = Traced]
  /\ UNCHANGED <<fn, loop>>

\* Lines 1298-1305: to sRGB unless the tag is sRGB or an equivalent, then
\* to the target.
TicConvertDirectly(c, st, tr) ==
  TicCall("RGBTransformImage", c, "1305", st, tr)

TicConvert(c, st, tr) ==
  IF ~IssRGBColorspace(colorspace)
    THEN TicCall("TransformRGBImage", colorspace, "1299", st, tr)
    ELSE TicCall("RGBTransformImage", c, "1305", st, tr)

NeverSameColorspace(c) == FALSE

\* Line 1286: the image is already in the target colorspace.
SameColorspace(c) == colorspace = c

TransformImageColorspace ==
  \E c \in Colorspaces, o \in Outcomes :
    /\ CanCall
    /\ Begin
    /\ IF c = "UndefinedColorspace"
         THEN /\ SetImageColorspace(c, o)
              /\ api' = Returned("TransformImageColorspace", c, o = "ok")
              /\ tic' = NoTic /\ fn' = NoFn /\ loop' = NoLoop
         ELSE /\ o = "ok"
              /\ UNCHANGED <<colorspace, faults>>
              /\ IF SameColorspace(c)
                   THEN /\ api' = Returned("TransformImageColorspace", c, TRUE)
                        /\ tic' = NoTic /\ fn' = NoFn /\ loop' = NoLoop
                   ELSE /\ api' = Running("TransformImageColorspace", c)
                        /\ IF c \in {"sRGBColorspace", "TransparentColorspace"}
                             THEN TicCall("TransformRGBImage", c, "1292",
                                          TRUE, << >>)
                             ELSE IF colorspace = "RGBColorspace"
                               THEN TicCall("TransformRGBImage",
                                            "sRGBColorspace", "1295", TRUE,
                                            << >>)
                               ELSE TicConvert(c, TRUE, << >>)
    /\ UNCHANGED <<storage_class, rows, colors, pixels, colormap, indexes,
                   progress_monitor, nthreads>>

\* A directional function returns into TransformImageColorspace().
TransformImageColorspaceResume ==
  /\ fn.pc = "ret"
  /\ tic.pc # "none"
  /\ CASE tic.pc = "1292" -> TicReturn(fn.ret)
       [] tic.pc = "1295" ->
            IF fn.ret = FALSE THEN TicReturn(FALSE)
            ELSE /\ TicConvert(api.target, fn.ret, Traced)
                 /\ UNCHANGED api
       [] tic.pc = "1299" ->
            IF fn.ret = FALSE THEN TicReturn(FALSE)
            ELSE /\ TicCall("RGBTransformImage", api.target, "1305", fn.ret,
                            Traced)
                 /\ UNCHANGED api
       [] tic.pc = "1305" ->
            TicReturn(IF fn.ret = FALSE THEN FALSE ELSE tic.status)
  /\ UNCHANGED <<image, nthreads, faults, calls, pre>>

(***************************************************************************)
(* RGBTransformImage() and TransformRGBImage().                            *)
(***************************************************************************)
FnReturn(v) == [fn EXCEPT !.pc = "ret", !.ret = v]

NoClassStep(kind) == IF kind = "table" THEN "alloc" ELSE "logalloc"

TablesFirst(kind) == "alloc"

FirstStep(kind) ==
  IF kind = "direct" THEN "class"
  ELSE IF kind = "log" THEN "logalloc" ELSE "alloc"

\* The kernel the pass in progress applies.
Kernel ==
  IF fn.name = "RGBTransformImage"
    THEN ForwardKernel(fn.arg)
    ELSE InverseKernel(fn.case, fn.arg)

\* The loop before its first iteration: status is MagickTrue, and so is
\* every thread's view of it.
NewLoop == [NoLoop EXCEPT !.active = TRUE]

\* Lines 210-225: the assertions, the tag set before any pixel is touched,
\* the dispatch.
RGBTransformImageEntry ==
  \E o \in Outcomes :
    /\ fn.name = "RGBTransformImage"
    /\ fn.pc = "entry"
    /\ IF fn.arg \in {"sRGBColorspace", "TransparentColorspace",
                      "UndefinedColorspace"}
         THEN /\ o = "ok"
              /\ fn' = [fn EXCEPT !.pc = "abort"]
              /\ UNCHANGED <<colorspace, faults>>
         ELSE IF IsGrayColorspace(fn.arg)
           THEN /\ o = "ok"
                /\ SetImageColorspace("sRGBColorspace", o)
                /\ fn' = [fn EXCEPT !.case = fn.arg,
                                    !.kind = ForwardKind(fn.arg),
                                    !.pc = FirstStep(ForwardKind(fn.arg))]
           ELSE /\ SetImageColorspace(fn.arg, o)
                /\ fn' = IF o = "ok"
                           THEN [fn EXCEPT !.case = fn.arg,
                                           !.kind = ForwardKind(fn.arg),
                                           !.pc = FirstStep(ForwardKind(fn.arg))]
                           ELSE FnReturn(FALSE)
    /\ UNCHANGED <<storage_class, rows, colors, pixels, colormap, indexes,
                   progress_monitor, nthreads, calls, api, pre, tic, loop>>

\* Lines 1700-1707: the dispatch on the image's tag.
TransformRGBImageEntry ==
  /\ fn.name = "TransformRGBImage"
  /\ fn.pc = "entry"
  /\ fn' = [fn EXCEPT !.case = colorspace,
                      !.kind = InverseKind(colorspace),
                      !.pc = FirstStep(InverseKind(colorspace))]
  /\ UNCHANGED <<image, nthreads, faults, calls, api, pre, tic, loop>>

\* SyncImage(): every pixel of a PseudoClass image takes its colormap entry.
SyncImage == [y \in Rows |-> colormap[indexes[y]]]

\* The direct-math cases: a PseudoClass image is synced and made
\* DirectClass before its rows are walked.
StorageClassStep ==
  \E o \in {"ok"} \cup
           (IF faults < MaxFaults /\ storage_class = "PseudoClass"
              THEN {"SyncImage", "SetImageStorageClass"} ELSE {}) :
    /\ fn.pc = "class"
    /\ faults' = Charge(o)
    /\ IF storage_class = "PseudoClass"
         THEN /\ pixels' = IF o = "SyncImage" THEN pixels ELSE SyncImage
              /\ storage_class' =
                   IF o = "SyncImage" THEN storage_class ELSE "DirectClass"
         ELSE UNCHANGED <<pixels, storage_class>>
    /\ IF o = "ok"
         THEN fn' = [fn EXCEPT !.pc = "loop"] /\ loop' = NewLoop
         ELSE fn' = FnReturn(FALSE) /\ UNCHANGED loop
    /\ UNCHANGED <<colorspace, rows, colors, colormap, indexes,
                   progress_monitor, nthreads, calls, api, pre, tic>>

\* The Log cases: the map is allocated and filled.
LogAllocStep ==
  \E o \in Outcomes :
    /\ fn.pc = "logalloc"
    /\ faults' = Charge(o)
    /\ IF o = "ok"
         THEN IF fn.name = "RGBTransformImage"
                THEN /\ fn' = [fn EXCEPT !.allocated = {"logmap"},
                                         !.pc = "loop"]
                     /\ loop' = NewLoop
                ELSE /\ fn' = [fn EXCEPT !.allocated = {"logmap"},
                                         !.pc = "logclass"]
                     /\ UNCHANGED loop
         ELSE /\ fn' = [FnReturn(FALSE) EXCEPT !.allocfail = TRUE]
              /\ UNCHANGED loop
    /\ UNCHANGED <<image, nthreads, calls, api, pre, tic>>

\* TransformRGBImage(), Log: SetImageStorageClass(image,DirectClass), with
\* no SyncImage() before it and the map still held when it fails.
LogClassStep ==
  \E o \in Outcomes :
    /\ fn.pc = "logclass"
    /\ faults' = Charge(o)
    /\ storage_class' = "DirectClass"
    /\ IF o = "ok"
         THEN fn' = [fn EXCEPT !.pc = "loop"] /\ loop' = NewLoop
         ELSE fn' = FnReturn(FALSE) /\ UNCHANGED loop
    /\ UNCHANGED <<colorspace, rows, colors, pixels, colormap, indexes,
                   progress_monitor, nthreads, calls, api, pre, tic>>

Maps == {"x_map", "y_map", "z_map"}

\* The table-driven cases: the three maps are allocated, then filled.  On a
\* failure TransformRGBImage() releases the maps it got; RGBTransformImage()
\* returns holding them.
AllocStep ==
  \E failing \in IF faults < MaxFaults THEN SUBSET Maps ELSE {{}} :
    /\ fn.pc = "alloc"
    /\ IF failing = {}
         THEN /\ faults' = faults
              /\ IF storage_class = "PseudoClass"
                   THEN /\ fn' = [fn EXCEPT !.allocated = Maps, !.pc = "cmap"]
                        /\ UNCHANGED loop
                   ELSE /\ fn' = [fn EXCEPT !.allocated = Maps, !.pc = "loop"]
                        /\ loop' = NewLoop
         ELSE /\ faults' = faults + 1
              /\ fn' = [FnReturn(FALSE) EXCEPT
                          !.allocfail = TRUE,
                          !.allocated = IF fn.name = "RGBTransformImage"
                                          THEN Maps \ failing ELSE {}]
              /\ UNCHANGED loop
    /\ UNCHANGED <<image, nthreads, calls, api, pre, tic>>

(***************************************************************************)
(* The row loops: #pragma omp parallel for schedule(static,4)              *)
(* shared(status).  Row y belongs to the thread its chunk is dealt to, and *)
(* each thread walks its rows in increasing order.                         *)
(***************************************************************************)
Owner(y) == ((y \div ChunkSize) % nthreads) + 1

\* Rows that are not dealt to threads: any thread takes any row not yet
\* stored.
UnownedPending(t) == {y \in Rows : y \notin loop.xformed}

Pending(t) == {y \in Rows : Owner(y) = t /\ y \notin loop.visited}

NextRow(t) == CHOOSE y \in Pending(t) : \A z \in Pending(t) : y <= z

ReadsTrue(t) == {TRUE}

ReadsAnything(t) == BOOLEAN

\* What thread t may read from status: the flag is shared and written
\* without synchronisation, so a thread reads either the value in memory or
\* the value it last saw.
ReadStatus(t) == {fn.status, loop.view[t]}

\* "if (status == MagickFalse) continue;" and GetCacheViewAuthenticPixels().
RowStart(t) ==
  \E seen \in ReadStatus(t), o \in Outcomes :
    /\ fn.pc = "loop"
    /\ loop.cur[t] = -1
    /\ Pending(t) # {}
    /\ LET y == NextRow(t) IN
         IF ~seen
           THEN /\ o = "ok"
                /\ loop' = [loop EXCEPT !.visited = @ \cup {y},
                                        !.skipped = @ \cup {y},
                                        !.view[t] = FALSE]
                /\ UNCHANGED <<fn, faults>>
           ELSE IF o = "fail"
             THEN /\ loop' = [loop EXCEPT !.visited = @ \cup {y},
                                          !.failed = @ \cup {y},
                                          !.view[t] = FALSE]
                  /\ fn' = [fn EXCEPT !.status = FALSE]
                  /\ faults' = faults + 1
             ELSE /\ loop' = [loop EXCEPT
                                !.visited = @ \cup {y},
                                !.cur[t] = y,
                                !.late = IF fn.status THEN @ ELSE @ \cup {y}]
                  /\ UNCHANGED <<fn, faults>>
    /\ UNCHANGED <<image, nthreads, calls, api, pre, tic>>

\* status=sync: the flag takes the result of the store.
StatusOverwritten(bad) == ~bad

\* if (sync == MagickFalse) status=MagickFalse; and the same for proceed:
\* the iteration writes the flag only to clear it.
StatusAfter(bad) == IF bad THEN FALSE ELSE fn.status

\* The rest of the iteration: the pixels of the row are converted,
\* SyncCacheViewAuthenticPixels() stores them, and in the table-driven loops
\* the progress monitor, when installed, is asked whether to proceed.  A
\* failed store leaves the stored row either as it was or converted.
RowFinish(t) ==
  \E store \in {"ok", "lost", "kept"}, proceed \in BOOLEAN :
    /\ fn.pc = "loop"
    /\ loop.cur[t] # -1
    /\ ~proceed => fn.kind = "table" /\ progress_monitor
    /\ LET y == loop.cur[t]
           cost == (IF store = "ok" THEN 0 ELSE 1) + (IF proceed THEN 0 ELSE 1)
           bad == store # "ok" \/ ~proceed
       IN /\ faults + cost <= MaxFaults
          /\ faults' = faults + cost
          /\ pixels' = IF store = "lost" THEN pixels
                       ELSE [pixels EXCEPT ![y] = ApplyKernel(Kernel, @)]
          /\ fn' = [fn EXCEPT !.status = StatusAfter(bad)]
          /\ loop' = [loop EXCEPT
                        !.cur[t] = -1,
                        !.view[t] = IF bad THEN FALSE ELSE @,
                        !.xformed = IF store = "lost" THEN @ ELSE @ \cup {y},
                        !.failed = IF store = "ok" THEN @ ELSE @ \cup {y},
                        !.cancelled = @ \/ ~proceed,
                        !.asked = IF fn.kind = "table" /\ progress_monitor
                                    THEN @ \cup {y} ELSE @]
    /\ UNCHANGED <<colorspace, storage_class, rows, colors, colormap, indexes,
                   progress_monitor, nthreads, calls, api, pre, tic>>

RetagsOnSuccess == fn.status

\* Whether the function sets the tag after its loop: every path but the
\* direct-math and Log cases of RGBTransformImage().
Retags == ~(fn.name = "RGBTransformImage" /\ fn.kind # "table")

FinalTagIsArgument == fn.arg

FinalTag ==
  IF fn.name = "RGBTransformImage" THEN fn.arg ELSE "sRGBColorspace"

\* What the function returns when its last SetImageColorspace() succeeds:
\* status, but MagickTrue on the table-driven path of TransformRGBImage().
FinalStatus ==
  IF fn.name = "TransformRGBImage" /\ fn.kind = "table"
    THEN TRUE ELSE fn.status

\* From the end of the loop to the return: the maps are released, the tag
\* is set, the status is returned.
Finish(o) ==
  /\ colorspace' = IF Retags THEN FinalTag ELSE colorspace
  /\ fn' = [fn EXCEPT !.pc = "ret", !.allocated = {},
                      !.ret = IF Retags /\ o # "ok" THEN FALSE
                              ELSE FinalStatus]

LoopEnd ==
  \E o \in Outcomes :
    /\ fn.pc = "loop"
    /\ \A y \in Rows : y \in loop.visited
    /\ \A t \in Threads : loop.cur[t] = -1
    /\ ~Retags => o = "ok"
    /\ faults' = Charge(o)
    /\ Finish(o)
    /\ loop' = [loop EXCEPT !.active = FALSE]
    /\ UNCHANGED <<storage_class, rows, colors, pixels, colormap, indexes,
                   progress_monitor, nthreads, calls, api, pre, tic>>

\* The thread that runs iteration i of the colormap loop: the loop of
\* TransformRGBImage() is an OpenMP loop (2675-2679), that of
\* RGBTransformImage() is not (1187).
EntryOwner(i) == IF fn.name = "TransformRGBImage" THEN Owner(i) ELSE 1

PendingEntries(t) ==
  {i \in DOMAIN colormap : EntryOwner(i) = t /\ i \notin loop.entries}

\* The table-driven cases on a PseudoClass image: one iteration of the
\* colormap loop converts one colormap entry.  It reads and writes that
\* entry alone, and nothing fails in it.
ColormapEntry(t) ==
  /\ fn.pc = "cmap"
  /\ PendingEntries(t) # {}
  /\ LET i == CHOOSE j \in PendingEntries(t) :
                 \A k \in PendingEntries(t) : j <= k
     IN /\ colormap' = [colormap EXCEPT ![i] = ApplyKernel(Kernel, @)]
        /\ loop' = [loop EXCEPT !.entries = @ \cup {i}]
  /\ UNCHANGED <<colorspace, storage_class, rows, colors, pixels, indexes,
                 progress_monitor, nthreads, faults, calls, api, pre, tic, fn>>

\* After the colormap loop: (void) SyncImage(image), then as after the row
\* loop.
ColormapStep ==
  \E sync \in Outcomes, o \in Outcomes :
    /\ fn.pc = "cmap"
    /\ loop.entries = DOMAIN colormap
    /\ LET cost == (IF sync = "ok" THEN 0 ELSE 1) + (IF o = "ok" THEN 0 ELSE 1)
       IN /\ faults + cost <= MaxFaults
          /\ faults' = faults + cost
    /\ pixels' = IF sync = "ok" THEN SyncImage ELSE pixels
    /\ Finish(o)
    /\ UNCHANGED <<storage_class, rows, colors, colormap, indexes,
                   progress_monitor, nthreads, calls, api, pre, tic, loop>>

Next ==
  \/ CallSetImageColorspace
  \/ CallRGBTransformImage
  \/ CallTransformRGBImage
  \/ ClientReturn
  \/ TransformImageColorspace
  \/ TransformImageColorspaceResume
  \/ RGBTransformImageEntry
  \/ TransformRGBImageEntry
  \/ StorageClassStep
  \/ LogAllocStep
  \/ LogClassStep
  \/ AllocStep
  \/ \E t \in Threads : RowStart(t)
  \/ \E t \in Threads : RowFinish(t)
  \/ LoopEnd
  \/ \E t \in Threads : ColormapEntry(t)
  \/ ColormapStep

\* The client converts only through TransformImageColorspace().
NextTIC ==
  \/ TransformImageColorspace
  \/ TransformImageColorspaceResume
  \/ RGBTransformImageEntry
  \/ TransformRGBImageEntry
  \/ StorageClassStep
  \/ LogAllocStep
  \/ LogClassStep
  \/ AllocStep
  \/ \E t \in Threads : RowStart(t)
  \/ \E t \in Threads : RowFinish(t)
  \/ LoopEnd
  \/ \E t \in Threads : ColormapEntry(t)
  \/ ColormapStep

Spec == Init /\ [][Next]_vars

SpecSeq == InitSeq /\ [][NextTIC]_vars

SpecOMP == InitOMP /\ [][NextTIC]_vars


(***************************************************************************)
(* Properties.                                                             *)
(***************************************************************************)
TicDone == api.name = "TransformImageColorspace" /\ api.pc = "ret"

FnDone == fn.pc = "ret"

\* C1 as stated: TransformImageColorspace(image,target) on an image whose
\* tag already equals target returns success and leaves the tag, the
\* pixels, the colormap and the storage class unchanged.
C1_AsStated ==
  (TicDone /\ pre.colorspace = api.target) => (api.ret /\ Snapshot = pre)

\* C1: TransformImageColorspace(image,target) on an image whose tag equals
\* target leaves the tag, the pixels, the colormap and the storage class
\* unchanged and runs no directional function; it returns success when
\* target is not Undefined, and the result of SetImageColorspace() (failure
\* when the pixel cache cannot be synced) when target is Undefined.
C1_SameColorspaceNoOp ==
  (TicDone /\ pre.colorspace = api.target) =>
     /\ Snapshot = pre
     /\ fn = NoFn
     /\ api.target # "UndefinedColorspace" => api.ret
     /\ api.target = "UndefinedColorspace" => (api.ret <=> faults = 0)

C1_Witness ==
  /\ TicDone
  /\ pre.colorspace = api.target
  /\ api.target = "HSLColorspace"
  /\ storage_class = "PseudoClass"
  /\ api.ret

\* C2: when an allocation of a table or of the Log map fails inside
\* RGBTransformImage or TransformRGBImage, the call returns failure and the
\* tag has the value it had before the call.
C2_AllocationFailureKeepsTag ==
  (FnDone /\ fn.allocfail) => (fn.ret = FALSE /\ colorspace = fn.entry)

\* C3: if the fetch or the store of any row fails during RGBTransformImage
\* or TransformRGBImage, the call returns failure.
C3_RowFailureReturnsFailure ==
  (FnDone /\ loop.failed # {}) => fn.ret = FALSE

C2_FailingInput ==
  /\ FnDone
  /\ fn.name = "RGBTransformImage"
  /\ fn.arg = "YCbCrColorspace"
  /\ fn.entry = "sRGBColorspace"
  /\ fn.allocfail
  /\ fn.ret = FALSE
  /\ colorspace = "YCbCrColorspace"

C3_FailingInput ==
  /\ FnDone
  /\ fn.name = "TransformRGBImage"
  /\ fn.entry = "YCbCrColorspace"
  /\ fn.entryclass = "DirectClass"
  /\ loop.failed # {}
  /\ fn.ret = TRUE

\* C4 as stated: when the fetch or the store of one row fails during a
\* directional transform, every other row is still transformed before the
\* call returns.
C4_AsStated ==
  (FnDone /\ loop.failed # {}) =>
     \A y \in Rows \ loop.failed : y \in loop.xformed

\* C4: in a build without OpenMP, when the fetch or the store of a row
\* fails, the rows before it have been transformed and every row after it
\* is visited but skipped: none of them is transformed.
C4_LaterRowsSkipped ==
  (FnDone /\ loop.failed # {}) =>
     \A z \in loop.failed : \A y \in Rows :
        /\ y > z => (y \in loop.skipped /\ y \notin loop.xformed)
        /\ y < z => y \in loop.xformed

C4_Witness ==
  /\ FnDone
  /\ 0 \in loop.failed
  /\ 1 \in loop.skipped
  /\ pixels[1] = pre.pixels[1]

\* C5 as stated: once status has been set during the row loop, no row
\* whose work had not yet started is transformed.
C5_AsStated == loop.late \cap loop.xformed = {}

\* C5: a thread that has seen status set (it set it itself, or read it as
\* MagickFalse) starts no further row; status is read without
\* synchronisation, so until then a thread may still start and transform a
\* row after another thread has set it.
C5_ObservedFlagStopsThread ==
  [][fn.pc = "loop" =>
       \A t \in Threads : ~loop.view[t] => loop'.cur[t] = -1]_vars

C5_Witness ==
  /\ FnDone
  /\ \E t \in Threads, y \in loop.skipped : Owner(y) = t /\ ~loop.view[t]
  /\ loop.late \cap loop.xformed # {}

\* C6: on the table-driven path of a DirectClass image, when the fetch or
\* the store of a row fails, the tag is nevertheless the target
\* (RGBTransformImage) or sRGB (TransformRGBImage) when the call returns.
C6_TagSetDespiteRowFailure ==
  (FnDone /\ fn.kind = "table" /\ fn.entryclass = "DirectClass"
     /\ loop.failed # {}) =>
       colorspace = IF fn.name = "RGBTransformImage"
                      THEN fn.arg ELSE "sRGBColorspace"

C6_Witness ==
  /\ FnDone
  /\ fn.name = "RGBTransformImage"
  /\ fn.arg = "GRAYColorspace"
  /\ fn.entryclass = "DirectClass"
  /\ loop.failed # {}
  /\ loop.skipped # {}
  /\ colorspace = "GRAYColorspace"

\* The targets RGBTransformImage() admits.
AlternateTargets ==
  Colorspaces \ {"sRGBColorspace", "TransparentColorspace",
                 "UndefinedColorspace"}

\* The call ran TransformRGBImage() first and, only when that succeeded and
\* left the tag sRGB, RGBTransformImage(target); when it failed the call
\* returned failure.
ViaSRGB ==
  /\ Len(tic.trace) >= 1
  /\ tic.trace[1].name = "TransformRGBImage"
  /\ tic.trace[1].tag = pre.colorspace
  /\ IF tic.trace[1].ret
       THEN /\ tic.trace[1].after = "sRGBColorspace"
            /\ Len(tic.trace) = 2
            /\ tic.trace[2].name = "RGBTransformImage"
            /\ tic.trace[2].arg = api.target
            /\ tic.trace[2].tag = "sRGBColorspace"
       ELSE /\ Len(tic.trace) = 1
            /\ api.ret = FALSE

TransformDone ==
  /\ api.pc = "ret"
  /\ api.name \in {"RGBTransformImage", "TransformRGBImage",
                   "TransformImageColorspace"}

RoundTripHSL ==
  /\ TicDone
  /\ api.target = "sRGBColorspace"
  /\ Len(api.past) = 1
  /\ api.past[1].name = "TransformImageColorspace"
  /\ api.past[1].target = "HSLColorspace"
  /\ api.past[1].storage_class = "PseudoClass"

DirectionalDone ==
  /\ api.pc = "ret"
  /\ api.name \in {"RGBTransformImage", "TransformRGBImage"}

\* C11: after a successful transform of an image that is PseudoClass when
\* the call returns, every colormap entry holds its converted colour and
\* every pixel holds the colormap entry at its index.
C11_IndexedPixelsFollowColormap ==
  (DirectionalDone /\ api.ret /\ storage_class = "PseudoClass") =>
     /\ colormap = [i \in DOMAIN colormap |->
                      ApplyKernel(Kernel, pre.colormap[i])]
     /\ pixels = SyncImage

C11_FailingInput ==
  /\ DirectionalDone
  /\ api.name = "RGBTransformImage"
  /\ api.target = "LogColorspace"
  /\ api.ret
  /\ faults = 0
  /\ pre.storage_class = "PseudoClass"
  /\ storage_class = "PseudoClass"
  /\ colormap = pre.colormap
  /\ pixels # SyncImage

(***************************************************************************)
(* The arithmetic of the lookup tables, for a build of quantum depth 8     *)
(* without HDRI.  The tables hold floating-point products of the index and *)
(* a decimal constant; they are computed here in millionths, which is      *)
(* exact for every constant of at most six decimals.                       *)
(***************************************************************************)
QuantumDepth == 8

MaxMap == 2^QuantumDepth - 1

QuantumRange == 2^QuantumDepth - 1

Micro == 1000000

\* The forward colorspaces whose tables are linear in the index with
\* constants of at most six decimals (all but RGB, XYZ and YCC).
LinearTableColorspaces ==
  ForwardTableColorspaces \
    {"RGBColorspace", "XYZColorspace", "YCCColorspace"}

\* The channel values the pixels are drawn from.
Levels == {0, 1, 127, 128, 254, 255}

ScaleQuantumToMap(q) == IF q >= MaxMap THEN MaxMap ELSE q

\* value is in millionths; the cast (Quantum) (value+0.5) truncates.
ScaleMapToQuantum(value) ==
  IF value <= 0 THEN 0
  ELSE IF value >= MaxMap * Micro THEN QuantumRange
  ELSE (value + Micro \div 2) \div Micro

\* A table entry: a*i, or b*(2*i-MaxMap), in millionths.
Linear(a) == <<a, 0>>

Centered(b) == <<0, b>>

Entry(e, i) == e[1] * i + e[2] * (2 * i - MaxMap)

\* The tables with the first and third output exchanged.
IdentityMirrored ==
  [x |-> <<Linear(0), Linear(0), Linear(Micro)>>,
   y |-> <<Linear(0), Linear(Micro), Linear(0)>>,
   z |-> <<Linear(Micro), Linear(0), Linear(0)>>]

Identity ==
  [x |-> <<Linear(Micro), Linear(0), Linear(0)>>,
   y |-> <<Linear(0), Linear(Micro), Linear(0)>>,
   z |-> <<Linear(0), Linear(0), Linear(Micro)>>]

\* The luma tables without the blue term.
LumaWithoutBlue(r, g, b) ==
  [x |-> <<Linear(r), Linear(g), Linear(0)>>,
   y |-> <<Linear(r), Linear(g), Linear(0)>>,
   z |-> <<Linear(r), Linear(g), Linear(0)>>]

Luma(r, g, b) ==
  [x |-> <<Linear(r), Linear(g), Linear(b)>>,
   y |-> <<Linear(r), Linear(g), Linear(b)>>,
   z |-> <<Linear(r), Linear(g), Linear(b)>>]

\* The tables RGBTransformImage builds for colorspace c: for each output
\* component its x_map, y_map and z_map entries.
ForwardMaps(c) ==
  CASE c = "OHTAColorspace" ->
         [x |-> <<Linear(333330), Linear(333340), Linear(333330)>>,
          y |-> <<Linear(500000), Linear(0), Linear(-500000)>>,
          z |-> <<Linear(-250000), Linear(500000), Linear(-250000)>>]
    [] c \in {"Rec601LumaColorspace", "GRAYColorspace"} ->
         Luma(299000, 587000, 114000)
    [] c \in {"Rec601YCbCrColorspace", "YCbCrColorspace"} ->
         [x |-> <<Linear(299000), Linear(587000), Linear(114000)>>,
          y |-> <<Linear(-168730), Linear(-331264), Linear(500000)>>,
          z |-> <<Linear(500000), Linear(-418688), Linear(-81312)>>]
    [] c = "Rec709LumaColorspace" ->
         Luma(212600, 715200, 72200)
    [] c = "Rec709YCbCrColorspace" ->
         [x |-> <<Linear(212600), Linear(715200), Linear(72200)>>,
          y |-> <<Linear(-114572), Linear(-385428), Linear(500000)>>,
          z |-> <<Linear(500000), Linear(-454153), Linear(-45847)>>]
    [] c = "YIQColorspace" ->
         [x |-> <<Linear(299000), Linear(587000), Linear(114000)>>,
          y |-> <<Linear(596000), Linear(-274000), Linear(-322000)>>,
          z |-> <<Linear(211000), Linear(-523000), Linear(312000)>>]
    [] c = "YPbPrColorspace" ->
         [x |-> <<Linear(299000), Linear(587000), Linear(114000)>>,
          y |-> <<Linear(-168736), Linear(-331264), Linear(500000)>>,
          z |-> <<Linear(500000), Linear(-418688), Linear(-81312)>>]
    [] c = "YUVColorspace" ->
         [x |-> <<Linear(299000), Linear(587000), Linear(114000)>>,
          y |-> <<Linear(-147400), Linear(-289500), Linear(436900)>>,
          z |-> <<Linear(615000), Linear(-515000), Linear(-100000)>>]
    [] OTHER -> Identity

\* primary_info, in millionths: (MaxMap+1.0)/2.0 on the second and third
\* axes of the chroma-centered colorspaces.
ForwardPrimaryInfo(c) ==
  IF c \in {"OHTAColorspace", "Rec601YCbCrColorspace", "YCbCrColorspace",
            "Rec709YCbCrColorspace", "YIQColorspace", "YPbPrColorspace",
            "YUVColorspace"}
    THEN [x |-> 0, y |-> ((MaxMap + 1) * Micro) \div 2,
          z |-> ((MaxMap + 1) * Micro) \div 2]
    ELSE [x |-> 0, y |-> 0, z |-> 0]

\* The tables TransformRGBImage builds for an image tagged c.
InverseMaps(c) ==
  CASE c = "OHTAColorspace" ->
         [x |-> <<Linear(Micro), Centered(500000), Centered(-333340)>>,
          y |-> <<Linear(Micro), Linear(0), Centered(666665)>>,
          z |-> <<Linear(Micro), Centered(-500000), Centered(-333340)>>]
    [] c \in {"Rec601YCbCrColorspace", "YCbCrColorspace"} ->
         [x |-> <<Linear(Micro), Linear(0), Centered(701000)>>,
          y |-> <<Linear(Micro), Centered(-172068), Centered(-357068)>>,
          z |-> <<Linear(Micro), Centered(886000), Linear(0)>>]
    [] c = "Rec709YCbCrColorspace" ->
         [x |-> <<Linear(Micro), Linear(0), Centered(787400)>>,
          y |-> <<Linear(Micro), Centered(-93662), Centered(-234062)>>,
          z |-> <<Linear(Micro), Centered(927800), Linear(0)>>]
    [] c = "YIQColorspace" ->
         [x |-> <<Linear(Micro), Centered(478100), Centered(310700)>>,
          y |-> <<Linear(Micro), Centered(-136350), Centered(-323400)>>,
          z |-> <<Linear(Micro), Centered(-551850), Centered(850300)>>]
    [] c = "YPbPrColorspace" ->
         [x |-> <<Linear(Micro), Linear(0), Centered(701000)>>,
          y |-> <<Linear(Micro), Centered(-172068), Centered(357068)>>,
          z |-> <<Linear(Micro), Centered(886000), Linear(0)>>]
    [] c = "YUVColorspace" ->
         [x |-> <<Linear(Micro), Linear(0), Centered(569900)>>,
          y |-> <<Linear(Micro), Centered(-196900), Centered(-290250)>>,
          z |-> <<Linear(Micro), Centered(1013950), Linear(0)>>]
    [] OTHER -> Identity

\* x_map[red].k+y_map[green].k+z_map[blue].k for one output component.
TableSum(m, v) ==
  Entry(m[1], ScaleQuantumToMap(v[1])) + Entry(m[2], ScaleQuantumToMap(v[2]))
    + Entry(m[3], ScaleQuantumToMap(v[3]))

\* Lines 1143-1154: one pixel through the forward tables.
ForwardPixel(c, v) ==
  <<ScaleMapToQuantum(TableSum(ForwardMaps(c).x, v) + ForwardPrimaryInfo(c).x),
    ScaleMapToQuantum(TableSum(ForwardMaps(c).y, v) + ForwardPrimaryInfo(c).y),
    ScaleMapToQuantum(TableSum(ForwardMaps(c).z, v) + ForwardPrimaryInfo(c).z)>>

\* Lines 2604-2647: one pixel through the inverse tables, with an argument
\* that selects no correction.
InversePixel(c, v) ==
  <<ScaleMapToQuantum(TableSum(InverseMaps(c).x, v)),
    ScaleMapToQuantum(TableSum(InverseMaps(c).y, v)),
    ScaleMapToQuantum(TableSum(InverseMaps(c).z, v))>>

\* The colours of Levels, and every gray (v,v,v).
Inputs == (Levels \X Levels \X Levels) \cup {<<v, v, v>> : v \in 0 .. QuantumRange}

\* A DirectClass image of one row tagged sRGB, its pixel any colour of
\* Inputs.
InitTables ==
  /\ colorspace = "sRGBColorspace"
  /\ storage_class = "DirectClass"
  /\ rows = 1
  /\ colors = MaxColors
  /\ colormap = InitialColormap
  /\ indexes = InitialIndexes(1)
  /\ pixels \in [0 .. 0 -> Inputs]
  /\ progress_monitor = FALSE
  /\ nthreads = 1
  /\ faults = 0
  /\ calls = MaxCalls
  /\ api = NoApi
  /\ pre = Snapshot
  /\ tic = NoTic
  /\ fn = NoFn
  /\ loop = NoLoop

\* A whole call of RGBTransformImage(image,c) on the table path in which
\* nothing fails: every row goes through the tables once and the tag
\* becomes c.
RGBTransformImageTables ==
  \E c \in LinearTableColorspaces :
    /\ CanCall
    /\ IssRGBColorspace(colorspace)
    /\ Begin
    /\ pixels' = [y \in Rows |-> ForwardPixel(c, pixels[y])]
    /\ colorspace' = c
    /\ api' = Returned("RGBTransformImage", c, TRUE)
    /\ UNCHANGED <<storage_class, rows, colors, colormap, indexes,
                   progress_monitor, nthreads, faults, tic, fn, loop>>

\* A whole call of TransformRGBImage(image,sRGBColorspace) on the table
\* path in which nothing fails.  pre is left as it was, the image before
\* the forward pass, for the comparison of a round trip.
TransformRGBImageTables ==
  /\ CanCall
  /\ colorspace \in LinearTableColorspaces
  /\ calls' = calls - 1
  /\ pixels' = [y \in Rows |-> InversePixel(colorspace, pixels[y])]
  /\ colorspace' = "sRGBColorspace"
  /\ api' = Returned("TransformRGBImage", "sRGBColorspace", TRUE)
  /\ UNCHANGED <<storage_class, rows, colors, colormap, indexes,
                 progress_monitor, nthreads, faults, pre, tic, fn, loop>>

NextTables ==
  \/ RGBTransformImageTables
  \/ TransformRGBImageTables

SpecTables == InitTables /\ [][NextTables]_vars

\* RGBTransformImage(c) and then TransformRGBImage have both returned.
RoundTrip(c) ==
  /\ api.pc = "ret"
  /\ api.name = "TransformRGBImage"
  /\ Len(api.past) >= 1
  /\ api.past[Len(api.past)].name = "RGBTransformImage"
  /\ api.past[Len(api.past)].target = c
  /\ pre.colorspace = "sRGBColorspace"

Distance(a, b) == IF a >= b THEN a - b ELSE b - a

\* Every channel of colour v is within d quanta of that of colour w.
Within(v, w, d) == \A k \in 1 .. 3 : Distance(v[k], w[k]) <= d

\* C12: for every table-driven colorspace c and every colour,
\* RGBTransformImage to c followed by TransformRGBImage gives back the
\* colour to within the quantization error of the tables (2 quanta).
C12_RoundTripWithinTolerance ==
  \A c \in LinearTableColorspaces :
    RoundTrip(c) => \A y \in Rows : Within(pixels[y], pre.pixels[y], 2)

C12_FailingInput ==
  /\ RoundTrip("YPbPrColorspace")
  /\ pre.pixels[0] = <<254, 0, 0>>
  /\ pixels[0] = <<255, 182, 1>>

\* The kernel the directional call e of a trace applied, and the case of
\* the dispatch it took.
TraceKernel(e) ==
  IF e.name = "RGBTransformImage"
    THEN ForwardKernel(e.arg) ELSE InverseKernel(e.tag, e.arg)

TraceKind(e) ==
  IF e.name = "RGBTransformImage"
    THEN ForwardKind(e.arg) ELSE InverseKind(e.tag)

\* The image data d after one sequential pass of the directional call e in
\* which nothing fails: rows from top to bottom, colormap entries in order.
SequentialPass(e, d) ==
  LET k == TraceKernel(e)
      kind == TraceKind(e)
      cm == [i \in DOMAIN d.colormap |-> ApplyKernel(k, d.colormap[i])]
  IN  IF kind = "table" /\ d.storage_class = "PseudoClass"
        THEN [d EXCEPT !.colormap = cm,
                       !.pixels = [y \in DOMAIN d.pixels |-> cm[d.indexes[y]]]]
      ELSE IF kind = "direct" /\ d.storage_class = "PseudoClass"
        THEN [d EXCEPT !.storage_class = "DirectClass",
                       !.pixels = [y \in DOMAIN d.pixels |->
                                     ApplyKernel(k, d.colormap[d.indexes[y]])]]
      ELSE IF kind = "log" /\ e.name = "TransformRGBImage"
        THEN [d EXCEPT !.storage_class = "DirectClass",
                       !.pixels = [y \in DOMAIN d.pixels |->
                                     ApplyKernel(k, d.pixels[y])]]
      ELSE [d EXCEPT !.pixels = [y \in DOMAIN d.pixels |->
                                   ApplyKernel(k, d.pixels[y])]]

RECURSIVE Sequential(_, _)
Sequential(tr, d) ==
  IF tr = << >> THEN d
  ELSE Sequential(Tail(tr), SequentialPass(Head(tr), d))

\* How many kernels a colour has been through.
Passes(v) == Len(v.hist)

C14_StatusSticky ==
  [][(fn.pc = "loop" /\ ~fn.status /\ fn'.pc = "loop") => ~fn'.status]_vars

\* A thread that had not seen the flag cleared has started a row after it
\* was cleared and has stored the row; the flag is still cleared.
C14_Witness ==
  /\ fn.pc = "loop"
  /\ nthreads > 1
  /\ ~fn.status
  /\ loop.late \cap loop.xformed # {}

\* C15: on an image with a progress monitor installed every row loop, the
\* direct-math loops as well as the table-driven loop, consults the monitor
\* for each row it stores, and once the monitor has requested termination
\* no row that starts afterwards is transformed.
C15_MonitorConsultedEachRow ==
  progress_monitor =>
    /\ loop.xformed \subseteq loop.asked
    /\ loop.cancelled => loop.late \cap loop.xformed = {}

C15_FailingInput ==
  /\ DirectionalDone
  /\ api.name = "RGBTransformImage"
  /\ api.target = "HSLColorspace"
  /\ api.ret
  /\ progress_monitor
  /\ faults = 0
  /\ loop.xformed = Rows
  /\ loop.asked = {}
  /\ ~loop.cancelled

\* C16: on every return of RGBTransformImage and TransformRGBImage every
\* table the call allocated (x_map, y_map, z_map, the Log map) has been
\* released.
C16_TablesReleasedAtReturn == FnDone => fn.allocated = {}

C16_FailingInput ==
  /\ DirectionalDone
  /\ api.name = "RGBTransformImage"
  /\ api.target = "YCbCrColorspace"
  /\ ~api.ret
  /\ fn.allocfail
  /\ fn.allocated = {"x_map", "y_map"}

\* The pixels TransformRGBImage(image,c) leaves when nothing fails, for a
\* DirectClass image as it was when the call began.
ResultOf(c) ==
  [y \in Rows |-> ApplyKernel(InverseKernel(pre.colorspace, c), pre.pixels[y])]

\* C17: the pixels TransformRGBImage leaves are determined by the tag and
\* the channel data of the image alone: the call made with any other
\* colorspace argument on the same image leaves the same pixels.
C17_ResultIndependentOfArgument ==
  (DirectionalDone /\ api.name = "TransformRGBImage" /\ faults = 0
     /\ pre.storage_class = "DirectClass") =>
       \A c \in Colorspaces : pixels = ResultOf(c)

C17_FailingInput ==
  /\ DirectionalDone
  /\ api.name = "TransformRGBImage"
  /\ api.target = "RGBColorspace"
  /\ api.ret
  /\ faults = 0
  /\ pre.storage_class = "DirectClass"
  /\ pre.colorspace = "RGBColorspace"
  /\ pixels = ResultOf("RGBColorspace")
  /\ pixels # ResultOf("sRGBColorspace")

\* C18: SetImageColorspace(image,target) sets the tag to target and leaves
\* the pixels, the colormap, the indexes and the storage class as they
\* were; it returns failure exactly when the sync of the pixel cache fails.
C18_SetImageColorspaceFrame ==
  (api.pc = "ret" /\ api.name = "SetImageColorspace") =>
     /\ colorspace = api.target
     /\ pixels = pre.pixels
     /\ colormap = pre.colormap
     /\ indexes = pre.indexes
     /\ storage_class = pre.storage_class
     /\ api.ret <=> faults = 0

C18_Witness ==
  /\ api.pc = "ret"
  /\ api.name = "SetImageColorspace"
  /\ ~api.ret
  /\ faults = 1
  /\ pre.storage_class = "PseudoClass"
  /\ colorspace = "GRAYColorspace"
  /\ pre.colorspace = "YCbCrColorspace"

\* C19 as stated: whenever TransformImageColorspace(image,target) returns
\* success the tag equals target, for every target.
C19_AsStated == (TicDone /\ api.ret) => colorspace = api.target

\* C19: whenever TransformImageColorspace(image,target) returns success the
\* tag equals target, except that for the target Transparent, on an image
\* not already tagged Transparent, the tag is sRGB.
C19_TagIsTargetUnlessTransparent ==
  (TicDone /\ api.ret) =>
     colorspace =
       IF api.target = "TransparentColorspace"
            /\ pre.colorspace # "TransparentColorspace"
         THEN "sRGBColorspace"
         ELSE api.target

C19_Witness ==
  /\ TicDone
  /\ api.ret
  /\ api.target = "TransparentColorspace"
  /\ pre.colorspace = "YCbCrColorspace"
  /\ colorspace = "sRGBColorspace"
  /\ Len(tic.trace) = 1
  /\ tic.trace[1].name = "TransformRGBImage"

\* C20: every call of RGBTransformImage made by TransformImageColorspace
\* meets its preconditions: the argument is none of sRGB, Transparent and
\* Undefined, so that no assertion fails, and the tag of the image at the
\* call is sRGB or an equivalent.
C20_CallMeetsPreconditions ==
  (fn.name = "RGBTransformImage" /\ tic.pc = "1305") =>
     /\ fn.pc # "abort"
     /\ fn.arg \in AlternateTargets
     /\ IssRGBColorspace(fn.entry)

C20_Witness ==
  /\ fn.name = "RGBTransformImage"
  /\ tic.pc = "1305"
  /\ fn.pc = "entry"
  /\ pre.colorspace = "YCbCrColorspace"
  /\ Len(tic.trace) = 1
  /\ tic.trace[1].name = "TransformRGBImage"
  /\ tic.trace[1].ret
  /\ colorspace = "sRGBColorspace"
  /\ fn.arg = "HSLColorspace"

(***************************************************************************)
(* The table builders: the switch that sets primary_info and fills x_map,  *)
(* y_map and z_map, one index per step.  The frame fn holds the function,  *)
(* the case, the index i and the tables as far as they are filled.  The    *)
(* fill loops of RGB, XYZ and YCC (pow(), constants of more than six       *)
(* decimals) are not computed: for them the builder stops after            *)
(* primary_info.                                                           *)
(***************************************************************************)
\* A colorspace value for which neither switch has a case.
Unhandled == "UnhandledColorspace"

\* The values the switch of RGBTransformImage (729) is entered with.
ForwardCases == ForwardTableColorspaces \cup {Unhandled}

\* The tags the switch of TransformRGBImage (2229) is entered with.
InverseCases ==
  InverseTableColorspaces \cup
    {Unhandled, "sRGBColorspace", "GRAYColorspace", "Rec601LumaColorspace",
     "Rec709LumaColorspace"}

\* The cases whose fill loop is computed.
FillComputed(c) ==
  c \notin {"RGBColorspace", "XYZColorspace", "YCCColorspace"}

ScaleCharToQuantum(value) == (QuantumRange * value) \div 255

\* Every chroma-centered case, YCC among them, centered at (MaxMap+1)/2.
PrimaryInfoCentered(c) ==
  IF c = "YCCColorspace"
    THEN [x |-> 0, y |-> ((MaxMap + 1) * Micro) \div 2,
          z |-> ((MaxMap + 1) * Micro) \div 2]
    ELSE ForwardPrimaryInfo(c)

\* primary_info as the case of RGBTransformImage sets it, in millionths.
PrimaryInfo(c) ==
  IF c = "YCCColorspace"
    THEN [x |-> 0,
          y |-> ScaleQuantumToMap(ScaleCharToQuantum(156)) * Micro,
          z |-> ScaleQuantumToMap(ScaleCharToQuantum(137)) * Micro]
    ELSE ForwardPrimaryInfo(c)

\* The frame of a builder at its switch; arg is the function's colorspace
\* argument and lookups the YCCMap subscripts the pixel loop has used, each
\* with the value RoundToYCC was given.
Builder(name, c, arg) ==
  [name |-> name, case |-> c, arg |-> arg, pc |-> "switch", i |-> 0,
   primary_info |-> [x |-> 0, y |-> 0, z |-> 0],
   x_map |-> << >>, y_map |-> << >>, z_map |-> << >>, lookups |-> {}]

BuildInputs == {<<0, 0, 0>>, <<255, 0, 0>>, <<1, 127, 254>>, <<128, 128, 128>>}

\* Arguments of TransformRGBImage: one that selects no correction after the
\* table sum and the one that selects YCCMap.
InverseArguments == {"sRGBColorspace", "YCCColorspace"}

\* RGBTransformImage(image,c) on an sRGB image, which it has tagged at its
\* entry, or TransformRGBImage(image,a) on an image tagged c: a DirectClass
\* image of one row, the function at its table switch.
InitBuild ==
  /\ storage_class = "DirectClass"
  /\ rows = 1
  /\ colors = MaxColors
  /\ colormap = InitialColormap
  /\ indexes = InitialIndexes(1)
  /\ pixels \in [0 .. 0 -> BuildInputs]
  /\ progress_monitor = FALSE
  /\ nthreads = 1
  /\ faults = 0
  /\ calls = 1
  /\ api = NoApi
  /\ tic = NoTic
  /\ loop = NoLoop
  /\ \/ \E c \in ForwardCases :
          /\ colorspace = IF IsGrayColorspace(c) THEN "sRGBColorspace" ELSE c
          /\ fn = Builder("RGBTransformImage", c, c)
          /\ pre = [Snapshot EXCEPT !.colorspace = "sRGBColorspace"]
     \/ \E c \in InverseCases, a \in InverseArguments :
          /\ colorspace = c
          /\ fn = Builder("TransformRGBImage", c, a)
          /\ pre = Snapshot

\* The coefficients of the case in progress.
BuilderMaps ==
  IF fn.name = "RGBTransformImage"
    THEN ForwardMaps(fn.case) ELSE InverseMaps(fn.case)

\* Entry i of the table of the k-th input channel: its x, y and z.
Packet(k, i) ==
  [x |-> Entry(BuilderMaps.x[k], i), y |-> Entry(BuilderMaps.y[k], i),
   z |-> Entry(BuilderMaps.z[k], i)]

\* The head of a case: primary_info is set (by RGBTransformImage only).
BuildCase ==
  /\ fn.pc = "switch"
  /\ fn' = [fn EXCEPT
              !.primary_info = IF fn.name = "RGBTransformImage"
                                 THEN PrimaryInfo(fn.case) ELSE @,
              !.pc = IF FillComputed(fn.case) THEN "fill" ELSE "notcomputed"]
  /\ UNCHANGED <<image, nthreads, faults, calls, api, pre, tic, loop>>

\* One iteration of for (i=0; i <= (ssize_t) MaxMap; i++).
BuildEntry ==
  /\ fn.pc = "fill"
  /\ fn.i <= MaxMap
  /\ fn' = [fn EXCEPT !.x_map = Append(@, Packet(1, fn.i)),
                      !.y_map = Append(@, Packet(2, fn.i)),
                      !.z_map = Append(@, Packet(3, fn.i)),
                      !.i = @ + 1]
  /\ UNCHANGED <<image, nthreads, faults, calls, api, pre, tic, loop>>

\* The loop ends and the case breaks.
BuildEnd ==
  /\ fn.pc = "fill"
  /\ fn.i > MaxMap
  /\ fn' = [fn EXCEPT !.pc = "built"]
  /\ UNCHANGED <<image, nthreads, faults, calls, api, pre, tic, loop>>

\* Index i of a table: the tables are sequences, whose first entry is
\* index 0.
At(map, i) == map[i + 1]

\* The Photo CD table, in millionths.
YCCMap ==
  <<
     0, 720, 1441, 2161, 2882, 3602, 4323, 5043, 5764, 6484,
     7205, 7925, 8646, 9366, 10086, 10807, 11527, 12248, 12968, 13689,
     14409, 15130, 15850, 16571, 17291, 18012, 18732, 19452, 20173, 20893,
     21614, 22334, 23055, 23775, 24496, 25216, 25937, 26657, 27378, 28098,
     28818, 29539, 30259, 30980, 31700, 32421, 33141, 33862, 34582, 35303,
     36023, 36744, 37464, 38184, 38905, 39625, 40346, 41066, 41787, 42507,
     43228, 43948, 44669, 45389, 46110, 46830, 47550, 48271, 48991, 49712,
     50432, 51153, 51873, 52594, 53314, 54035, 54755, 55476, 56196, 56916,
     57637, 58357, 59078, 59798, 60519, 61239, 61960, 62680, 63401, 64121,
     64842, 65562, 66282, 67003, 67723, 68444, 69164, 69885, 70605, 71326,
     72046, 72767, 73487, 74207, 74928, 75648, 76369, 77089, 77810, 78530,
     79251, 79971, 80692, 81412, 82133, 82853, 83573, 84294, 85014, 85735,
     86455, 87176, 87896, 88617, 89337, 90058, 90778, 91499, 92219, 92939,
     93660, 94380, 95101, 95821, 96542, 97262, 97983, 98703, 99424, 100144,
     100865, 101585, 102305, 103026, 103746, 104467, 105187, 105908, 106628, 107349,
     108069, 108790, 109510, 110231, 110951, 111671, 112392, 113112, 113833, 114553,
     115274, 115994, 116715, 117435, 118156, 118876, 119597, 120317, 121037, 121758,
     122478, 123199, 123919, 124640, 125360, 126081, 126801, 127522, 128242, 128963,
     129683, 130403, 131124, 131844, 132565, 133285, 134006, 134726, 135447, 136167,
     136888, 137608, 138329, 139049, 139769, 140490, 141210, 141931, 142651, 143372,
     144092, 144813, 145533, 146254, 146974, 147695, 148415, 149135, 149856, 150576,
     151297, 152017, 152738, 153458, 154179, 154899, 155620, 156340, 157061, 157781,
     158501, 159222, 159942, 160663, 161383, 162104, 162824, 163545, 164265, 164986,
     165706, 166427, 167147, 167867, 168588, 169308, 170029, 170749, 171470, 172190,
     172911, 173631, 174352, 175072, 175793, 176513, 177233, 177954, 178674, 179395,
     180115, 180836, 181556, 182277, 182997, 183718, 184438, 185159, 185879, 186599,
     187320, 188040, 188761, 189481, 190202, 190922, 191643, 192363, 193084, 193804,
     194524, 195245, 195965, 196686, 197406, 198127, 198847, 199568, 200288, 201009,
     201729, 202450, 203170, 203890, 204611, 205331, 206052, 206772, 207493, 208213,
     208934, 209654, 210375, 211095, 211816, 212536, 213256, 213977, 214697, 215418,
     216138, 216859, 217579, 218300, 219020, 219741, 220461, 221182, 221902, 222622,
     223343, 224063, 224784, 225504, 226225, 226945, 227666, 228386, 229107, 229827,
     230548, 231268, 231988, 232709, 233429, 234150, 234870, 235591, 236311, 237032,
     237752, 238473, 239193, 239914, 240634, 241354, 242075, 242795, 243516, 244236,
     244957, 245677, 246398, 247118, 247839, 248559, 249280, 250000, 250720, 251441,
     252161, 252882, 253602, 254323, 255043, 255764, 256484, 257205, 257925, 258646,
     259366, 260086, 260807, 261527, 262248, 262968, 263689, 264409, 265130, 265850,
     266571, 267291, 268012, 268732, 269452, 270173, 270893, 271614, 272334, 273055,
     273775, 274496, 275216, 275937, 276657, 277378, 278098, 278818, 279539, 280259,
     280980, 281700, 282421, 283141, 283862, 284582, 285303, 286023, 286744, 287464,
     288184, 288905, 289625, 290346, 291066, 291787, 292507, 293228, 293948, 294669,
     295389, 296109, 296830, 297550, 298271, 298991, 299712, 300432, 301153, 301873,
     302594, 303314, 304035, 304755, 305476, 306196, 306916, 307637, 308357, 309078,
     309798, 310519, 311239, 311960, 312680, 313401, 314121, 314842, 315562, 316282,
     317003, 317723, 318444, 319164, 319885, 320605, 321326, 322046, 322767, 323487,
     324207, 324928, 325648, 326369, 327089, 327810, 328530, 329251, 329971, 330692,
     331412, 332133, 332853, 333573, 334294, 335014, 335735, 336455, 337176, 337896,
     338617, 339337, 340058, 340778, 341499, 342219, 342939, 343660, 344380, 345101,
     345821, 346542, 347262, 347983, 348703, 349424, 350144, 350865, 351585, 352305,
     353026, 353746, 354467, 355187, 355908, 356628, 357349, 358069, 358790, 359510,
     360231, 360951, 361671, 362392, 363112, 363833, 364553, 365274, 365994, 366715,
     367435, 368156, 368876, 369597, 370317, 371037, 371758, 372478, 373199, 373919,
     374640, 375360, 376081, 376801, 377522, 378242, 378963, 379683, 380403, 381124,
     381844, 382565, 383285, 384006, 384726, 385447, 386167, 386888, 387608, 388329,
     389049, 389769, 390490, 391210, 391931, 392651, 393372, 394092, 394813, 395533,
     396254, 396974, 397695, 398415, 399135, 399856, 400576, 401297, 402017, 402738,
     403458, 404179, 404899, 405620, 406340, 407061, 407781, 408501, 409222, 409942,
     410663, 411383, 412104, 412824, 413545, 414265, 414986, 415706, 416427, 417147,
     417867, 418588, 419308, 420029, 420749, 421470, 422190, 422911, 423631, 424352,
     425072, 425793, 426513, 427233, 427954, 428674, 429395, 430115, 430836, 431556,
     432277, 432997, 433718, 434438, 435158, 435879, 436599, 437320, 438040, 438761,
     439481, 440202, 440922, 441643, 442363, 443084, 443804, 444524, 445245, 445965,
     446686, 447406, 448127, 448847, 449568, 450288, 451009, 451729, 452450, 453170,
     453891, 454611, 455331, 456052, 456772, 457493, 458213, 458934, 459654, 460375,
     461095, 461816, 462536, 463256, 463977, 464697, 465418, 466138, 466859, 467579,
     468300, 469020, 469741, 470461, 471182, 471902, 472622, 473343, 474063, 474784,
     475504, 476225, 476945, 477666, 478386, 479107, 479827, 480548, 481268, 481988,
     482709, 483429, 484150, 484870, 485591, 486311, 487032, 487752, 488473, 489193,
     489914, 490634, 491354, 492075, 492795, 493516, 494236, 494957, 495677, 496398,
     497118, 497839, 498559, 499280, 500000, 500720, 501441, 502161, 502882, 503602,
     504323, 505043, 505764, 506484, 507205, 507925, 508646, 509366, 510086, 510807,
     511527, 512248, 512968, 513689, 514409, 515130, 515850, 516571, 517291, 518012,
     518732, 519452, 520173, 520893, 521614, 522334, 523055, 523775, 524496, 525216,
     525937, 526657, 527378, 528098, 528818, 529539, 530259, 530980, 531700, 532421,
     533141, 533862, 534582, 535303, 536023, 536744, 537464, 538184, 538905, 539625,
     540346, 541066, 541787, 542507, 543228, 543948, 544669, 545389, 546109, 546830,
     547550, 548271, 548991, 549712, 550432, 551153, 551873, 552594, 553314, 554035,
     554755, 555476, 556196, 556916, 557637, 558357, 559078, 559798, 560519, 561239,
     561960, 562680, 563401, 564121, 564842, 565562, 566282, 567003, 567723, 568444,
     569164, 569885, 570605, 571326, 572046, 572767, 573487, 574207, 574928, 575648,
     576369, 577089, 577810, 578530, 579251, 579971, 580692, 581412, 582133, 582853,
     583573, 584294, 585014, 585735, 586455, 587176, 587896, 588617, 589337, 590058,
     590778, 591499, 592219, 592939, 593660, 594380, 595101, 595821, 596542, 597262,
     597983, 598703, 599424, 600144, 600865, 601585, 602305, 603026, 603746, 604467,
     605187, 605908, 606628, 607349, 608069, 608790, 609510, 610231, 610951, 611671,
     612392, 613112, 613833, 614553, 615274, 615994, 616715, 617435, 618156, 618876,
     619597, 620317, 621037, 621758, 622478, 623199, 623919, 624640, 625360, 626081,
     626801, 627522, 628242, 628963, 629683, 630403, 631124, 631844, 632565, 633285,
     634006, 634726, 635447, 636167, 636888, 637608, 638329, 639049, 639769, 640490,
     641210, 641931, 642651, 643372, 644092, 644813, 645533, 646254, 646974, 647695,
     648415, 649135, 649856, 650576, 651297, 652017, 652738, 653458, 654179, 654899,
     655620, 656340, 657061, 657781, 658501, 659222, 659942, 660663, 661383, 662104,
     662824, 663545, 664265, 664986, 665706, 666427, 667147, 667867, 668588, 669308,
     670029, 670749, 671470, 672190, 672911, 673631, 674352, 675072, 675793, 676513,
     677233, 677954, 678674, 679395, 680115, 680836, 681556, 682277, 682997, 683718,
     684438, 685158, 685879, 686599, 687320, 688040, 688761, 689481, 690202, 690922,
     691643, 692363, 693084, 693804, 694524, 695245, 695965, 696686, 697406, 698127,
     698847, 699568, 700288, 701009, 701729, 702450, 703170, 703891, 704611, 705331,
     706052, 706772, 707493, 708213, 708934, 709654, 710375, 711095, 711816, 712536,
     713256, 713977, 714697, 715418, 716138, 716859, 717579, 718300, 719020, 719741,
     720461, 721182, 721902, 722622, 723343, 724063, 724784, 725504, 726225, 726945,
     727666, 728386, 729107, 729827, 730548, 731268, 731988, 732709, 733429, 734150,
     734870, 735591, 736311, 737032, 737752, 738473, 739193, 739914, 740634, 741354,
     742075, 742795, 743516, 744236, 744957, 745677, 746398, 747118, 747839, 748559,
     749280, 750000, 750720, 751441, 752161, 752882, 753602, 754323, 755043, 755764,
     756484, 757205, 757925, 758646, 759366, 760086, 760807, 761527, 762248, 762968,
     763689, 764409, 765130, 765850, 766571, 767291, 768012, 768732, 769452, 770173,
     770893, 771614, 772334, 773055, 773775, 774496, 775216, 775937, 776657, 777378,
     778098, 778818, 779539, 780259, 780980, 781700, 782421, 783141, 783862, 784582,
     785303, 786023, 786744, 787464, 788184, 788905, 789625, 790346, 791066, 791787,
     792507, 793228, 793948, 794669, 795389, 796109, 796830, 797550, 798271, 798991,
     799712, 800432, 801153, 801873, 802594, 803314, 804035, 804755, 805476, 806196,
     806916, 807637, 808357, 809078, 809798, 810519, 811239, 811960, 812680, 813401,
     814121, 814842, 815562, 816282, 817003, 817723, 818444, 819164, 819885, 820605,
     821326, 822046, 822767, 823487, 824207, 824928, 825648, 826369, 827089, 827810,
     828530, 829251, 829971, 830692, 831412, 832133, 832853, 833573, 834294, 835014,
     835735, 836455, 837176, 837896, 838617, 839337, 840058, 840778, 841499, 842219,
     842939, 843660, 844380, 845101, 845821, 846542, 847262, 847983, 848703, 849424,
     850144, 850865, 851585, 852305, 853026, 853746, 854467, 855187, 855908, 856628,
     857349, 858069, 858790, 859510, 860231, 860951, 861671, 862392, 863112, 863833,
     864553, 865274, 865994, 866715, 867435, 868156, 868876, 869597, 870317, 871037,
     871758, 872478, 873199, 873919, 874640, 875360, 876081, 876801, 877522, 878242,
     878963, 879683, 880403, 881124, 881844, 882565, 883285, 884006, 884726, 885447,
     886167, 886888, 887608, 888329, 889049, 889769, 890490, 891210, 891931, 892651,
     893372, 894092, 894813, 895533, 896254, 896974, 897695, 898415, 899135, 899856,
     900576, 901297, 902017, 902738, 903458, 904179, 904899, 905620, 906340, 907061,
     907781, 908501, 909222, 909942, 910663, 911383, 912104, 912824, 913545, 914265,
     914986, 915706, 916427, 917147, 917867, 918588, 919308, 920029, 920749, 921470,
     922190, 922911, 923631, 924352, 925072, 925793, 926513, 927233, 927954, 928674,
     929395, 930115, 930836, 931556, 932277, 932997, 933718, 934438, 935158, 935879,
     936599, 937320, 938040, 938761, 939481, 940202, 940922, 941643, 942363, 943084,
     943804, 944524, 945245, 945965, 946686, 947406, 948127, 948847, 949568, 950288,
     951009, 951729, 952450, 953170, 953891, 954611, 955331, 956052, 956772, 957493,
     958213, 958934, 959654, 960375, 961095, 961816, 962536, 963256, 963977, 964697,
     965418, 966138, 966859, 967579, 968300, 969020, 969741, 970461, 971182, 971902,
     972622, 973343, 974063, 974784, 975504, 976225, 976945, 977666, 978386, 979107,
     979827, 980548, 981268, 981988, 982709, 983429, 984150, 984870, 985591, 986311,
     987032, 987752, 988473, 989193, 989914, 990634, 991354, 992075, 992795, 993516,
     994236, 994957, 995677, 996398, 997118, 997839, 998559, 999280, 1000000
  >>

\* Every subscript, from the least to the greatest.
RoundToYCCUnclamped(value) == (value + Micro \div 2) \div Micro

\* value is in millionths; the cast (ssize_t) (value+0.5) truncates.
RoundToYCC(value) ==
  IF value <= 0 THEN 0
  ELSE IF value >= 1388 * Micro THEN 1388
  ELSE (value + Micro \div 2) \div Micro

\* 1024.0*QuantumScale*value.  A value outside -QuantumRange ..
\* 1388*QuantumRange/1024+1 is taken at that end of the range, where
\* RoundToYCC returns the same as for the value itself; the product then
\* fits 32 bits.
YCCArgument(value) ==
  LET top == ((1388 * QuantumRange) \div 1024 + 1) * Micro
      v == IF value <= -(QuantumRange * Micro) THEN -(QuantumRange * Micro)
           ELSE IF value >= top THEN top ELSE value
  IN  (v \div QuantumRange) * 1024 + ((v % QuantumRange) * 1024) \div QuantumRange

\* The three sums of one pixel through the tables that were built.
TablePixel(v) ==
  LET r == ScaleQuantumToMap(v[1])
      g == ScaleQuantumToMap(v[2])
      b == ScaleQuantumToMap(v[3])
  IN  <<At(fn.x_map, r).x + At(fn.y_map, g).x + At(fn.z_map, b).x
          + fn.primary_info.x,
        At(fn.x_map, r).y + At(fn.y_map, g).y + At(fn.z_map, b).y
          + fn.primary_info.y,
        At(fn.x_map, r).z + At(fn.y_map, g).z + At(fn.z_map, b).z
          + fn.primary_info.z>>

\* TransformRGBImage's switch (colorspace) on its argument.
Corrected == fn.name = "TransformRGBImage" /\ fn.arg = "YCCColorspace"

\* The pixel loop and the return, in a call where nothing fails.  A
\* subscript outside YCCMap reads whatever lies there.
BuildApply ==
  /\ fn.pc = "built"
  /\ \E junk \in {0, Micro} :
       LET lookup(value) ==
             LET i == RoundToYCC(YCCArgument(value))
             IN  IF i \in 0 .. Len(YCCMap) - 1
                   THEN QuantumRange * At(YCCMap, i) ELSE QuantumRange * junk
           final(value) ==
             ScaleMapToQuantum(IF Corrected THEN lookup(value) ELSE value)
       IN  pixels' = [y \in Rows |->
                        [k \in 1 .. 3 |-> final(TablePixel(pixels[y])[k])]]
  /\ fn' = [fn EXCEPT
              !.pc = "done",
              !.lookups =
                IF Corrected
                  THEN {<<YCCArgument(TablePixel(pixels[y])[k]),
                          RoundToYCC(YCCArgument(TablePixel(pixels[y])[k]))>> :
                          y \in Rows, k \in 1 .. 3}
                  ELSE @]
  /\ colorspace' =
       IF fn.name = "RGBTransformImage" THEN fn.arg ELSE "sRGBColorspace"
  /\ calls' = calls - 1
  /\ api' = Returned(fn.name, fn.arg, TRUE)
  /\ UNCHANGED <<storage_class, rows, colors, colormap, indexes,
                 progress_monitor, nthreads, faults, pre, tic, loop>>

NextBuild ==
  \/ BuildCase
  \/ BuildEntry
  \/ BuildEnd
  \/ BuildApply

SpecBuild == InitBuild /\ [][NextBuild]_vars

\* The tables of a case of function name are filled.
Built(name, c) ==
  /\ fn.name = name
  /\ fn.case = c
  /\ fn.pc = "built"

\* C21: the forward YCbCr and Rec601YCbCr tables hold the documented
\* matrix at every index i of 0..MaxMap:
\*   Y  =  0.299000*R+0.587000*G+0.114000*B
\*   Cb = -0.168736*R-0.331264*G+0.500000*B
\*   Cr =  0.500000*R-0.418688*G-0.081312*B
C21_TablesHoldDocumentedMatrix ==
  \A c \in {"YCbCrColorspace", "Rec601YCbCrColorspace"} :
    Built("RGBTransformImage", c) =>
      \A i \in 0 .. MaxMap :
        /\ At(fn.x_map, i) =
             [x |-> 299000 * i, y |-> -168736 * i, z |-> 500000 * i]
        /\ At(fn.y_map, i) =
             [x |-> 587000 * i, y |-> -331264 * i, z |-> -418688 * i]
        /\ At(fn.z_map, i) =
             [x |-> 114000 * i, y |-> 500000 * i, z |-> -81312 * i]

C21_FailingInput ==
  /\ Built("RGBTransformImage", "YCbCrColorspace")
  /\ At(fn.x_map, MaxMap).y = -168730 * MaxMap
  /\ At(fn.x_map, MaxMap).y # -168736 * MaxMap

(***************************************************************************)
(* The CMYK pair of the direct-math path, at quantum depth 8.  A pixel of  *)
(* a CMYK image is <<cyan, magenta, yellow, black>>: black is the index    *)
(* channel.  The MagickPixelPacket fields are reals, kept in millionths.   *)
(***************************************************************************)
\* n/d in millionths, for n >= 0 and d > 0, without leaving 32 bits.
Ratio(n, d) == (n \div d) * Micro + ((n % d) * Micro) \div d

\* SetPixelPacket() stores each field through ClampToQuantum(): clamp to
\* 0..QuantumRange, then (Quantum) (value+0.5).
ClampToQuantum(value) ==
  IF value <= 0 THEN 0
  ELSE IF value >= QuantumRange * Micro THEN QuantumRange
  ELSE (value + Micro \div 2) \div Micro

\* ConvertRGBToCMYK(): black is the least of 1-red, 1-green, 1-blue and the
\* other three are (channel-black)/(1-black); a black pixel keeps its three
\* channels and gets index QuantumRange.
ConvertRGBToCMYK(p) ==
  LET most == IF p[1] >= p[2] /\ p[1] >= p[3] THEN p[1]
              ELSE IF p[2] >= p[3] THEN p[2] ELSE p[3]
      black == QuantumRange - most
      ink(k) == Ratio(QuantumRange * ((QuantumRange - p[k]) - black),
                      QuantumRange - black)
  IN  IF p[1] = 0 /\ p[2] = 0 /\ p[3] = 0
        THEN <<0, 0, 0, QuantumRange * Micro>>
        ELSE <<ink(1), ink(2), ink(3), black * Micro>>

\* QuantumRange-(QuantumScale*channel*(QuantumRange-index)+index).
UnderColor(p, k) ==
  QuantumRange * Micro -
    (Ratio(p[k] * (QuantumRange - p[4]), QuantumRange) + p[4] * Micro)

\* The sum without the complement to QuantumRange.
ConvertCMYKToRGBNoComplement(p) ==
  [k \in 1 .. 3 |->
     Ratio(p[k] * (QuantumRange - p[4]), QuantumRange) + p[4] * Micro]

ConvertCMYKToRGB(p) == [k \in 1 .. 3 |-> UnderColor(p, k)]

StorePacket(v) == [k \in DOMAIN v |-> ClampToQuantum(v[k])]

\* A whole call of RGBTransformImage(image,CMYKColorspace) on a DirectClass
\* image in which nothing fails.
RGBTransformImageCMYK ==
  /\ CanCall
  /\ IssRGBColorspace(colorspace)
  /\ Begin
  /\ pixels' = [y \in Rows |-> StorePacket(ConvertRGBToCMYK(pixels[y]))]
  /\ colorspace' = "CMYKColorspace"
  /\ api' = Returned("RGBTransformImage", "CMYKColorspace", TRUE)
  /\ UNCHANGED <<storage_class, rows, colors, colormap, indexes,
                 progress_monitor, nthreads, faults, tic, fn, loop>>

\* A whole call of TransformRGBImage(image,sRGBColorspace) on a CMYK image
\* in which nothing fails; an sRGB pixel has no black channel.
TransformRGBImageCMYK ==
  /\ CanCall
  /\ colorspace = "CMYKColorspace"
  /\ calls' = calls - 1
  /\ pixels' = [y \in Rows |-> StorePacket(ConvertCMYKToRGB(pixels[y]))]
  /\ colorspace' = "sRGBColorspace"
  /\ api' = Returned("TransformRGBImage", "sRGBColorspace", TRUE)
  /\ UNCHANGED <<storage_class, rows, colors, colormap, indexes,
                 progress_monitor, nthreads, faults, pre, tic, fn, loop>>

NextCMYK ==
  \/ RGBTransformImageCMYK
  \/ TransformRGBImageCMYK

SpecCMYK == InitTables /\ [][NextCMYK]_vars

\* RGBTransformImage(c) has just returned.
Forward(c) ==
  /\ api.pc = "ret"
  /\ api.name = "RGBTransformImage"
  /\ api.target = c
  /\ pre.colorspace = "sRGBColorspace"

\* C22: the 8-bit sRGB pixel (255,0,0) is stored in CMYK as cyan 0,
\* magenta 255, yellow 255, black 0, and ConvertCMYKToRGB gives back
\* exactly (255,0,0).
C22_RedThroughCMYK ==
  \A y \in Rows :
    /\ Forward("CMYKColorspace") /\ pre.pixels[y] = <<255, 0, 0>> =>
         pixels[y] = <<0, 255, 255, 0>>
    /\ RoundTrip("CMYKColorspace") /\ pre.pixels[y] = <<255, 0, 0>> =>
         pixels[y] = <<255, 0, 0>>

C22_Witness ==
  /\ RoundTrip("CMYKColorspace")
  /\ pre.pixels[0] = <<255, 0, 0>>
  /\ pixels[0] = <<255, 0, 0>>

\* v is a gray: its three channels are equal.
IsGray(v) == v[1] = v[2] /\ v[2] = v[3]

\* C23: for every gray level v of 0..QuantumRange (128 among them), the
\* pixel (v,v,v) taken to GRAYColorspace by RGBTransformImage and back by
\* TransformRGBImage is within 1 quantum of (v,v,v).
C23_GrayRoundTripWithinOne ==
  RoundTrip("GRAYColorspace") =>
    \A y \in Rows :
      IsGray(pre.pixels[y]) => Within(pixels[y], pre.pixels[y], 1)

C23_Witness ==
  /\ RoundTrip("GRAYColorspace")
  /\ pre.pixels[0] = <<128, 128, 128>>
  /\ Within(pixels[0], <<128, 128, 128>>, 1)

\* The case in progress is the default of the table switch.
DefaultCase ==
  \/ fn.name = "RGBTransformImage" /\ fn.case \notin ForwardTableColorspaces
  \/ fn.name = "TransformRGBImage" /\ fn.case \notin InverseTableColorspaces

\* The pixel loop has run and the function has returned.
Applied == fn.pc = "done" /\ api.pc = "ret" /\ api.name = fn.name

\* C24: for a colorspace value that neither the table switch nor the
\* switch on the argument handles, the tables built are the identity
\* (x_map[i].x = y_map[i].y = z_map[i].z = i, every other component 0),
\* every channel comes out as it went in, and the call returns MagickTrue.
C24_DefaultIsIdentityAndSucceeds ==
  DefaultCase /\ ~Corrected =>
    /\ fn.pc \in {"built", "done"} =>
         \A i \in 0 .. MaxMap :
           /\ At(fn.x_map, i) = [x |-> i * Micro, y |-> 0, z |-> 0]
           /\ At(fn.y_map, i) = [x |-> 0, y |-> i * Micro, z |-> 0]
           /\ At(fn.z_map, i) = [x |-> 0, y |-> 0, z |-> i * Micro]
    /\ Applied =>
         /\ api.ret = TRUE
         /\ \A y \in Rows, k \in 1 .. 3 :
              pixels[y][k] =
                ScaleMapToQuantum(ScaleQuantumToMap(pre.pixels[y][k]) * Micro)

C24_Witness ==
  /\ Applied
  /\ fn.name = "TransformRGBImage"
  /\ fn.case = "GRAYColorspace"
  /\ fn.arg = "sRGBColorspace"
  /\ Len(fn.x_map) = MaxMap + 1
  /\ pre.pixels[0] = <<1, 127, 254>>
  /\ pixels[0] = <<1, 127, 254>>

\* The forward builder is past the head of case c.
CaseSet(c) ==
  fn.name = "RGBTransformImage" /\ fn.case = c /\ fn.pc # "switch"

ChromaCentered ==
  {"OHTAColorspace", "Rec601YCbCrColorspace", "YCbCrColorspace",
   "Rec709YCbCrColorspace", "YIQColorspace", "YPbPrColorspace",
   "YUVColorspace"}

Center == [x |-> 0, y |-> ((MaxMap + 1) * Micro) \div 2,
           z |-> ((MaxMap + 1) * Micro) \div 2]

\* C25 as stated: OHTA, YCbCr 601/709, YIQ, YPbPr, YUV and YCC set the
\* offsets of the second and third axes to (MaxMap+1)/2 and leave the first
\* at 0; every other table-driven colorspace leaves all three at 0.
C25_AsStated ==
  \A c \in ForwardTableColorspaces :
    CaseSet(c) =>
      fn.primary_info =
        IF c \in ChromaCentered \cup {"YCCColorspace"}
          THEN Center ELSE [x |-> 0, y |-> 0, z |-> 0]

\* C25: OHTA, YCbCr 601/709, YIQ, YPbPr and YUV set the offsets of the
\* second and third axes to (MaxMap+1)/2; YCC sets them to
\* ScaleQuantumToMap(ScaleCharToQuantum(156)) and
\* ScaleQuantumToMap(ScaleCharToQuantum(137)); the first axis stays 0, and
\* every other table-driven colorspace leaves all three at 0.
C25_OffsetsPerCase ==
  \A c \in ForwardTableColorspaces :
    CaseSet(c) =>
      fn.primary_info =
        IF c \in ChromaCentered THEN Center
        ELSE IF c = "YCCColorspace"
          THEN [x |-> 0, y |-> 156 * Micro, z |-> 137 * Micro]
        ELSE [x |-> 0, y |-> 0, z |-> 0]

C25_Witness ==
  /\ CaseSet("YCCColorspace")
  /\ fn.primary_info = [x |-> 0, y |-> 156 * Micro, z |-> 137 * Micro]

\* C26: RoundToYCC returns 0 for a value <= 0, 1388 for a value >= 1388
\* and the value rounded half up otherwise, so every subscript
\* TransformRGBImage applies to YCCMap lies inside its 1389 entries.
C26_YCCMapSubscriptInRange ==
  /\ Len(YCCMap) = 1389
  /\ \A l \in fn.lookups :
       /\ l[2] \in 0 .. Len(YCCMap) - 1
       /\ l[1] <= 0 => l[2] = 0
       /\ l[1] >= 1388 * Micro => l[2] = 1388
       /\ l[1] > 0 /\ l[1] < 1388 * Micro =>
            /\ 2 * (l[2] * Micro - l[1]) <= Micro
            /\ 2 * (l[1] - l[2] * Micro) < Micro

C26_Witness ==
  /\ Applied
  /\ Corrected
  /\ \E l \in fn.lookups : l[1] < 0 /\ l[2] = 0
  /\ \E l \in fn.lookups : l[1] > 1388 * Micro /\ l[2] = 1388
  /\ \E l \in fn.lookups : l[1] > 0 /\ l[1] < 1388 * Micro

(***************************************************************************)
(* The inverse Log map: TransformRGBImage on an image tagged Log reads the *)
(* reference-black and reference-white properties and fills the MaxMap+1   *)
(* entries of logmap with three consecutive loops over one index i.        *)
(***************************************************************************)
ReferenceBlack == 95

ReferenceWhite == 685

\* Values of the two properties: the defaults, and values below, at and
\* above the ends of the 0..1024 scale.
ReferenceBlacks == {-100, 0, ReferenceBlack, 1024, 1029, 1100}

ReferenceWhites == {-100, 0, ReferenceWhite, 1024, 1033, 1100}

\* The cast (ssize_t) of the quotient n/d truncates toward zero.
Truncate(n, d) == IF n >= 0 THEN n \div d ELSE -((-n) \div d)

\* (ssize_t) (reference*MaxMap/1024.0)
LogBound(reference) == Truncate(reference * MaxMap, 1024)

\* The frame at the first loop; writes lists the subscripts of logmap
\* assigned so far.
LogFrame(black, white) ==
  [name |-> "TransformRGBImage", case |-> "LogColorspace", pc |-> "black",
   i |-> 0, reference_black |-> black, reference_white |-> white,
   writes |-> << >>]

InitLog ==
  /\ colorspace = "LogColorspace"
  /\ storage_class = "DirectClass"
  /\ rows = 1
  /\ colors = MaxColors
  /\ colormap = InitialColormap
  /\ indexes = InitialIndexes(1)
  /\ pixels = [y \in 0 .. 0 |-> <<0, 0, 0>>]
  /\ progress_monitor = FALSE
  /\ nthreads = 1
  /\ faults = 0
  /\ calls = 1
  /\ api = NoApi
  /\ pre = Snapshot
  /\ tic = NoTic
  /\ loop = NoLoop
  /\ \E black \in ReferenceBlacks, white \in ReferenceWhites :
       fn = LogFrame(black, white)

\* logmap[i]=...; i++ in the loop at pc.  logmap has MaxMap+1 entries: an
\* assignment past them is outside the allocation, after which the run
\* either goes on or is stopped.
LogWrite(pc) ==
  /\ fn.pc = pc
  /\ \E next \in IF fn.i \in 0 .. MaxMap THEN {pc} ELSE {pc, "crashed"} :
       fn' = [fn EXCEPT !.writes = Append(@, fn.i), !.i = @ + 1, !.pc = next]
  /\ UNCHANGED <<image, nthreads, faults, calls, api, pre, tic, loop>>

LogLeave(pc, next) ==
  /\ fn.pc = pc
  /\ fn' = [fn EXCEPT !.pc = next]
  /\ UNCHANGED <<image, nthreads, faults, calls, api, pre, tic, loop>>

\* for (i=0; i <= (ssize_t) (reference_black*MaxMap/1024.0); i++)
LogFillBlack == fn.i <= LogBound(fn.reference_black) /\ LogWrite("black")

LogBlackEnd ==
  fn.i > LogBound(fn.reference_black) /\ LogLeave("black", "curve")

\* for ( ; i < (ssize_t) (reference_white*MaxMap/1024.0); i++)
LogFillCurve == fn.i < LogBound(fn.reference_white) /\ LogWrite("curve")

LogCurveEnd ==
  fn.i >= LogBound(fn.reference_white) /\ LogLeave("curve", "white")

\* for ( ; i <= (ssize_t) MaxMap; i++)
LogFillWhite == fn.i <= MaxMap /\ LogWrite("white")

LogWhiteEnd == fn.i > MaxMap /\ LogLeave("white", "filled")

NextLog ==
  \/ LogFillBlack
  \/ LogBlackEnd
  \/ LogFillCurve
  \/ LogCurveEnd
  \/ LogFillWhite
  \/ LogWhiteEnd

SpecLog == InitLog /\ [][NextLog]_vars

\* How many times subscript k was assigned.
Assignments(k) == Cardinality({j \in 1 .. Len(fn.writes) : fn.writes[j] = k})

\* C27: for every value of reference-black and reference-white, the three
\* loops assign each subscript of 0..MaxMap exactly once and assign no
\* subscript outside 0..MaxMap.
C27_LogMapFilledOnceInBounds ==
  /\ \A j \in 1 .. Len(fn.writes) : fn.writes[j] \in 0 .. MaxMap
  /\ fn.pc = "filled" => \A k \in 0 .. MaxMap : Assignments(k) = 1

C27_FailingInput ==
  /\ fn.reference_black = 1029
  /\ fn.reference_white = ReferenceWhite
  /\ fn.pc = "black"
  /\ Len(fn.writes) = MaxMap + 2
  /\ fn.writes[MaxMap + 2] = MaxMap + 1

(***************************************************************************)
(* coders/tim2.c: ReadTIM2Image.  The frame fn holds the file being read,  *)
(* the sections of it consumed so far, the header fields, the offsets read *)
(* in the image-data and CLUT buffers, and the image under construction.   *)
(***************************************************************************)
MaxWidth == 3

MaxHeight == 2

\* The first four bytes of a file: "TIM2", "TIM3", "2MIT", or an empty
\* stream.
Magics == {<<84, 73, 77, 50>>, <<84, 73, 77, 51>>, <<50, 77, 73, 84>>, << >>}

\* The two bytes of image_count: 0, 1, 2 and 256.
ImageCounts == {<<0, 0>>, <<1, 0>>, <<2, 0>>, <<0, 1>>}

\* The four bytes taken least significant byte first.
ReadBlobMSBLongReversed(b) ==
  IF Len(b) < 4 THEN 0
  ELSE b[1] + b[2] * 256 + b[3] * 65536 + b[4] * 16777216

\* ReadBlobMSBLong(): most significant byte first; 0 at the end of the
\* stream.
ReadBlobMSBLong(b) ==
  IF Len(b) < 4 THEN 0
  ELSE b[1] * 16777216 + b[2] * 65536 + b[3] * 256 + b[4]

\* ReadBlobLSBShort(): least significant byte first.
ReadBlobLSBShort(b) == IF Len(b) < 2 THEN 0 ELSE b[1] + b[2] * 256

\* switch ((int) tim2_image_header.bpp_type)
BitsPerPixel(bpp_type) ==
  CASE bpp_type = 1 -> 16
    [] bpp_type = 2 -> 24
    [] bpp_type = 3 -> 32
    [] bpp_type = 4 -> 4
    [] OTHER -> 8

\* switch ((int) tim2_image_header.clut_type>>4)
StorageMode(clut_type) == IF clut_type \div 16 = 1 THEN 2 ELSE 1

\* switch ((int) tim2_image_header.clut_type&0x0F)
ClutDepth(clut_type) ==
  CASE clut_type % 16 = 1 -> 16
    [] clut_type % 16 = 2 -> 24
    [] OTHER -> 32

BytesPerLine(columns, bits) ==
  (columns * bits) \div 8 + (IF (columns * bits) % 8 = 0 THEN 0 ELSE 1)

\* The bytes the pixel loops take from the image data of a header.
NeededImageSize(h) ==
  h.height * BytesPerLine(h.width, BitsPerPixel(h.bpp_type))

\* The bytes the CLUT loop takes from the CLUT data of a header.
NeededClutSize(h) == h.clut_color_count * (ClutDepth(h.clut_type) \div 8)

\* What a header says of the image, its sizes apart.  clut_type: no CLUT;
\* a CLUT of 16, 24 or 32 bits in storage mode 1; storage mode 2.
Shapes ==
  [width : 1 .. MaxWidth, height : 1 .. MaxHeight, bpp_type : 0 .. 5,
   clut_type : {0, 1, 2, 3, 16}, clut_color_count : {1, 16}]

\* The headers of the files read: image_size and clut_size are what the
\* loops need, or half of it.
Headers ==
  UNION {{[width |-> s.width, height |-> s.height, bpp_type |-> s.bpp_type,
           clut_type |-> s.clut_type,
           clut_color_count |-> s.clut_color_count,
           image_size |-> i, clut_size |-> c] :
            i \in {NeededImageSize(s), (NeededImageSize(s) + 1) \div 2},
            c \in {NeededClutSize(s), (NeededClutSize(s) + 1) \div 2}} :
          s \in Shapes}

\* A header of the smallest image, for the files that are rejected before
\* it is read.
PlainHeader ==
  [width |-> 1, height |-> 1, bpp_type |-> 3, clut_type |-> 0,
   clut_color_count |-> 1, image_size |-> 4, clut_size |-> 4]

\* A file: its magic, its image_count, its image header, and whether the
\* stream ends inside the image data or the CLUT data.
Files ==
  [magic : Magics \ {<<84, 73, 77, 50>>}, image_count : {<<1, 0>>},
   header : {PlainHeader}, ends : {"never"}]
    \cup
  [magic : {<<84, 73, 77, 50>>}, image_count : ImageCounts \ {<<1, 0>>},
   header : {PlainHeader}, ends : {"never"}]
    \cup
  [magic : {<<84, 73, 77, 50>>}, image_count : {<<1, 0>>},
   header : Headers, ends : {"never", "image", "clut"}]

\* Byte k of the image data or of the CLUT data of every file: neighbours
\* differ, and so do the two nibbles of a byte.
Data(k) == (k * 53 + 27) % 256

\* *(buffer+k) for a buffer of size bytes: past the buffer it reads
\* whatever lies there.
ByteAt(size, k, junk) == IF k < size THEN Data(k) ELSE junk

\* The frame after AcquireImage() and OpenBlob().
Reader(file) ==
  [name |-> "ReadTIM2Image", pc |-> "magic", file |-> file, read |-> {},
   exception |-> "none", result |-> "none",
   has_clut |-> FALSE, clut_depth |-> 0, bits_per_pixel |-> 0, y |-> 0,
   image_reads |-> {}, clut_reads |-> {},
   image |-> [columns |-> 0, rows |-> 0, colors |-> 0, pixels |-> << >>,
              colormap |-> << >>]]

InitTIM2 ==
  /\ colorspace = "sRGBColorspace"
  /\ storage_class = "DirectClass"
  /\ rows = 1
  /\ colors = MaxColors
  /\ colormap = InitialColormap
  /\ indexes = InitialIndexes(1)
  /\ pixels = [y \in 0 .. 0 |-> <<0, 0, 0>>]
  /\ progress_monitor = FALSE
  /\ nthreads = 1
  /\ faults = 0
  /\ calls = 1
  /\ api = NoApi
  /\ pre = Snapshot
  /\ tic = NoTic
  /\ loop = NoLoop
  /\ \E file \in Files : fn = Reader(file)

\* ThrowReaderException(): the image is destroyed and NULL returned.
Throw(e) ==
  [fn EXCEPT !.pc = "returned", !.exception = e, !.result = "NULL"]

ReaderFrame == UNCHANGED <<image, nthreads, faults, calls, api, pre, tic, loop>>

\* Lines 163-165.
ReadMagic ==
  /\ fn.name = "ReadTIM2Image"
  /\ fn.pc = "magic"
  /\ fn' = IF ReadBlobMSBLong(fn.file.magic) # 1414090034
             THEN [Throw("ImproperImageHeader") EXCEPT !.read = {"magic"}]
             ELSE [fn EXCEPT !.read = {"magic"}, !.pc = "fileheader"]
  /\ ReaderFrame

\* Lines 170-179.
ReadFileHeader ==
  /\ fn.name = "ReadTIM2Image"
  /\ fn.pc = "fileheader"
  /\ fn' = IF ReadBlobLSBShort(fn.file.image_count) # 1
             THEN [Throw("NumberOfImagesIsNotSupported") EXCEPT
                     !.read = @ \cup {"fileheader"}]
             ELSE [fn EXCEPT !.read = @ \cup {"fileheader"},
                             !.pc = "imageheader"]
  /\ ReaderFrame

\* Lines 197-259.
ReadImageHeader ==
  /\ fn.name = "ReadTIM2Image"
  /\ fn.pc = "imageheader"
  /\ LET h == fn.file.header
         has_clut == h.clut_type # 0
         read == fn.read \cup {"imageheader"}
     IN  fn' = IF has_clut /\ StorageMode(h.clut_type) # 1
                 THEN [Throw("DataStorageTypeIsNotSupported") EXCEPT
                         !.read = read]
                 ELSE [fn EXCEPT
                         !.read = read,
                         !.pc = "imagedata",
                         !.has_clut = has_clut,
                         !.clut_depth =
                           IF has_clut THEN ClutDepth(h.clut_type) ELSE 0,
                         !.bits_per_pixel = BitsPerPixel(h.bpp_type),
                         !.image.columns = h.width,
                         !.image.rows = h.height]
  /\ ReaderFrame

\* Lines 279-311 and 378, 486-490: the image data is read whole, the image
\* gets its extent and, with a CLUT, its colormap; without a CLUT only 16,
\* 24 and 32 bits per pixel have a case.
ReadImageData ==
  /\ fn.name = "ReadTIM2Image"
  /\ fn.pc = "imagedata"
  /\ LET read == fn.read \cup {"imagedata"}
     IN  fn' = IF fn.file.ends = "image"
                 THEN [Throw("InsufficientImageDataInFile") EXCEPT
                         !.read = read]
               ELSE IF ~fn.has_clut /\ fn.bits_per_pixel \notin {16, 24, 32}
                 THEN [Throw("ImproperImageHeader") EXCEPT !.read = read]
               ELSE [fn EXCEPT
                       !.read = read,
                       !.pc = "rows",
                       !.image.colors =
                         IF fn.has_clut
                           THEN fn.file.header.clut_color_count ELSE @]
  /\ ReaderFrame

\* The switch on bits_per_pixel has a case for this image.
HasCase ==
  IF fn.has_clut THEN fn.bits_per_pixel \in {4, 8}
  ELSE fn.bits_per_pixel \in {16, 24, 32}

\* Lines 321-334: the index of column x of a row that starts at offset p0.
\* The loop takes two columns from each byte; an odd width leaves a last
\* column, taken from the next byte.
Index4(p0, x, size, junk) ==
  LET columns == fn.image.columns
      paired == 2 * (columns \div 2)
      byte == ByteAt(size, p0 + x \div 2, junk)
  IN  IF x < paired
        THEN IF x % 2 = 0 THEN byte % 16 ELSE (byte \div 16) % 16
        ELSE (byte \div 16) % 16

\* Lines 391-398, 426-433 and 461-469: the channels of the pixel at offset
\* p before ScaleColor5to8(), ScaleColor6to8() and ScaleCharToQuantum().
Channels(bits, p, size, junk) ==
  LET b(k) == ByteAt(size, p + k, junk)
      w16 == b(0) + b(1) * 256
      w24 == b(0) + b(1) * 256 + b(2) * 65536
  IN  CASE bits = 16 ->
             <<w16 % 32, (w16 \div 32) % 32, (w16 \div 1024) % 32,
               IF w16 \div 32768 = 0 THEN 0 ELSE 255>>
        [] bits = 24 ->
             <<w24 % 64, (w24 \div 64) % 64, (w24 \div 4096) % 64,
               IF (w24 \div 262144) % 64 = 0 THEN 0 ELSE 255>>
        [] OTHER ->
             <<b(0), b(1), b(2), IF b(3) = 0 THEN 0 ELSE 255>>

\* The offsets of the image data the loop reads for row y.
RowReads(y) ==
  LET bits == fn.bits_per_pixel
      columns == fn.image.columns
      p0 == y * BytesPerLine(columns, bits)
  IN  IF bits = 4
        THEN {p0 + x \div 2 : x \in 0 .. columns - 1}
        ELSE {p0 + x * (bits \div 8) + k :
                x \in 0 .. columns - 1, k \in 0 .. bits \div 8 - 1}

\* One iteration of for (y=0; y<(ssize_t) image->rows; y++).
UnpackRow ==
  /\ fn.name = "ReadTIM2Image"
  /\ fn.pc = "rows"
  /\ HasCase
  /\ fn.y < fn.image.rows
  /\ \E junk \in {0, 255} :
       LET bits == fn.bits_per_pixel
           size == fn.file.header.image_size
           p0 == fn.y * BytesPerLine(fn.image.columns, bits)
           row == [x1 \in 1 .. fn.image.columns |->
                     CASE bits = 4 -> Index4(p0, x1 - 1, size, junk)
                       [] bits = 8 -> ByteAt(size, p0 + x1 - 1, junk)
                       [] OTHER ->
                            Channels(bits, p0 + (x1 - 1) * (bits \div 8),
                                     size, junk)]
       IN  fn' = [fn EXCEPT !.image.pixels = Append(@, row),
                            !.image_reads = @ \cup RowReads(fn.y),
                            !.y = @ + 1]
  /\ ReaderFrame

\* The loop over the rows ends, or the switch had no case; line 496.
RowsEnd ==
  /\ fn.name = "ReadTIM2Image"
  /\ fn.pc = "rows"
  /\ ~HasCase \/ fn.y >= fn.image.rows
  /\ fn' = [fn EXCEPT !.pc = IF fn.has_clut THEN "clut" ELSE "close"]
  /\ ReaderFrame

\* Lines 512-584: the CLUT data is read whole and decoded entry by entry.
ReadClut ==
  /\ fn.name = "ReadTIM2Image"
  /\ fn.pc = "clut"
  /\ \E junk \in {0, 255} :
       LET bytes == fn.clut_depth \div 8
           size == fn.file.header.clut_size
           read == fn.read \cup {"clut"}
       IN  fn' =
             IF fn.file.ends = "clut"
               THEN [Throw("InsufficientImageDataInFile") EXCEPT
                       !.read = read]
               ELSE [fn EXCEPT
                       !.read = read,
                       !.pc = "close",
                       !.clut_reads =
                         {i * bytes + k :
                            i \in 0 .. fn.image.colors - 1,
                            k \in 0 .. bytes - 1},
                       !.image.colormap =
                         [i1 \in 1 .. fn.image.colors |->
                            Channels(fn.clut_depth, (i1 - 1) * bytes, size,
                                     junk)]]
  /\ ReaderFrame

\* Lines 628-631.
CloseAndReturn ==
  /\ fn.name = "ReadTIM2Image"
  /\ fn.pc = "close"
  /\ fn' = [fn EXCEPT !.pc = "returned", !.result = "image"]
  /\ ReaderFrame

NextTIM2 ==
  \/ ReadMagic
  \/ ReadFileHeader
  \/ ReadImageHeader
  \/ ReadImageData
  \/ UnpackRow
  \/ RowsEnd
  \/ ReadClut
  \/ CloseAndReturn

SpecTIM2 == InitTIM2 /\ [][NextTIM2]_vars

IsTIM2(file) == file.magic = <<84, 73, 77, 50>>

HasOneImage(file) == file.image_count = <<1, 0>>

\* C28: ReadTIM2Image returns an image only if the first four bytes are
\* "TIM2" and image_count is 1; a wrong magic raises ImproperImageHeader
\* and a wrong count NumberOfImagesIsNotSupported, each returning NULL
\* before any image header or pixel data is read.
C28_RejectsBeforeImageHeader ==
  fn.pc = "returned" =>
    /\ fn.result = "image" => IsTIM2(fn.file) /\ HasOneImage(fn.file)
    /\ ~IsTIM2(fn.file) =>
         /\ fn.exception = "ImproperImageHeader"
         /\ fn.result = "NULL"
         /\ fn.read \cap {"imageheader", "imagedata", "clut"} = {}
    /\ IsTIM2(fn.file) /\ ~HasOneImage(fn.file) =>
         /\ fn.exception = "NumberOfImagesIsNotSupported"
         /\ fn.result = "NULL"
         /\ fn.read \cap {"imageheader", "imagedata", "clut"} = {}

C28_Witness ==
  /\ fn.pc = "returned"
  /\ IsTIM2(fn.file)
  /\ fn.file.image_count = <<0, 1>>
  /\ fn.exception = "NumberOfImagesIsNotSupported"
  /\ fn.read = {"magic", "fileheader"}

\* C29: for every header, every byte read while the pixels are unpacked
\* lies below image_size in the image data, and every byte read while the
\* CLUT is decoded lies below clut_size in the CLUT data.
C29_ReadsWithinBuffers ==
  /\ \A k \in fn.image_reads : k < fn.file.header.image_size
  /\ \A k \in fn.clut_reads : k < fn.file.header.clut_size

C29_FailingInput ==
  /\ fn.file.header.width = 2
  /\ fn.file.header.height = 1
  /\ fn.file.header.bpp_type = 3
  /\ fn.file.header.clut_type = 0
  /\ fn.file.header.image_size = 4
  /\ fn.file.ends = "never"
  /\ 7 \in fn.image_reads

\* C30: in the 4-bit CLUT path, for every row and every column x below the
\* width, of even and of odd widths, the pixel at an even x is the low
\* nibble of byte x/2 of the row and the pixel at an odd x is the high
\* nibble of byte (x-1)/2 of the row.
C30_NibbleOrder ==
  fn.has_clut /\ fn.bits_per_pixel = 4 =>
    \A y1 \in 1 .. Len(fn.image.pixels) :
      \A x \in 0 .. fn.image.columns - 1 :
        LET p0 == (y1 - 1) * BytesPerLine(fn.image.columns, 4)
            k == IF x % 2 = 0 THEN p0 + x \div 2 ELSE p0 + (x - 1) \div 2
        IN  k < fn.file.header.image_size =>
              fn.image.pixels[y1][x + 1] =
                IF x % 2 = 0 THEN Data(k) % 16 ELSE (Data(k) \div 16) % 16

C30_FailingInput ==
  /\ fn.has_clut
  /\ fn.bits_per_pixel = 4
  /\ fn.file.header.width = 3
  /\ fn.file.header.image_size = NeededImageSize(fn.file.header)
  /\ Len(fn.image.pixels) >= 1
  /\ fn.image.pixels[1][3] = (Data(1) \div 16) % 16
  /\ fn.image.pixels[1][3] # Data(1) % 16

====
